---------------------------- MODULE Spec2Model ----------------------------
(***************************************************************************)
(* Location resolution and deduplication engine of                         *)
(* scripts/process_and_upload.py.                                          *)
(*                                                                         *)
(* These state machines share this module:                                  *)
(*   SpecClassify  one call of are_properties_duplicate(prop1, prop2)       *)
(*   SpecDedup     one pass of deduplicate_properties(properties)           *)
(*   SpecGeo       a run of get_coordinates(title, location) calls against  *)
(*                 the module-level geocode_cache and the external lookup,  *)
(*                 each followed by the translations of process_property    *)
(*   SpecGeoFair   SpecGeo with every lookup under way answered             *)
(*   SpecText      one call of normalize_location, of                       *)
(*                 extract_municipality_and_area or of the query-list       *)
(*                 construction of get_coordinates                          *)
(*   SpecMain      one run of main() of process_and_upload.py or of         *)
(*                 new_upload.py, from the command line to the upload       *)
(*                                                                         *)
(* Python strings are TLA+ strings; Len, SubSeq and \o act on them as on    *)
(* sequences of characters.  A Python dict is a record; a key the dict      *)
(* lacks is a field the record lacks.  None and the empty tuple are <<>>.   *)
(* The texts held in the variables are written in ASCII; accented letters   *)
(* occur in the tables of the program only.                                 *)
(***************************************************************************)
EXTENDS Integers, Sequences, FiniteSets, TLC

VARIABLES
    \* are_properties_duplicate: the two arguments, the position, the result
    prop1, prop2, cls_pc, cls_ret,
    \* deduplicate_properties: input list, loop index, accepted list, counter,
    \* and the "Duplicate found: a ~ b" lines printed so far
    properties, dd_i, unique_properties, duplicates_found, dup_log, dd_pc,
    \* get_coordinates: the module-level cache, the arguments and locals of
    \* the call in progress, its return value
    geocode_cache, geo_pc, title, location, unique_queries, qi, attempt, geo_ret,
    \* what the run shows from outside: the external lookups issued by the call
    \* in progress, the query last sent and how many times in a row, the
    \* sleeps made since the last lookup, what the last lookup answered, and
    \* the calls completed so far
    lookups, sent, sleeps, last_answer, completed,
    \* process_property: the number of completed get_coordinates calls whose
    \* translate_property has run
    translated,
    \* a text function under call: its arguments, the position, the result
    fn_title, fn_location, fn_pc, fn_ret,
    \* main(): the script run, sys.argv, the list loaded from the input file,
    \* the position, the loop index, the processed list, the dry_run argument
    \* of upload_properties, the upserts sent to the store (the position of the
    \* listing in the batch, its id, whether the store accepted it), and how
    \* upload_to_supabase ended with its success_count and error_count
    script, argv, candidates, main_pc, main_i, processed_properties, dry_run, upserts,
    upload_summary

cls_vars == <<prop1, prop2, cls_pc, cls_ret>>
dd_vars  == <<properties, dd_i, unique_properties, duplicates_found, dup_log, dd_pc>>
geo_vars == <<geocode_cache, geo_pc, title, location, unique_queries, qi, attempt,
              geo_ret, lookups, sent, sleeps, last_answer, completed, translated>>
fn_vars  == <<fn_title, fn_location, fn_pc, fn_ret>>
main_vars == <<script, argv, candidates, main_pc, main_i, processed_properties, dry_run,
               upserts, upload_summary>>
vars     == <<cls_vars, dd_vars, geo_vars, fn_vars, main_vars>>

None == <<>>

Abs(n) == IF n < 0 THEN -n ELSE n

Max(a, b) == IF a >= b THEN a ELSE b

(***************************************************************************)
(* Python string operations                                                *)
(***************************************************************************)
Whitespace == {" "}

UpperCase == <<"A","B","C","D","E","F","G","H","I","J","K","L","M","N","O","P","Q",
               "R","S","T","U","V","W","X","Y","Z","À","Á","Ó","Í">>

LowerCase == <<"a","b","c","d","e","f","g","h","i","j","k","l","m","n","o","p","q",
               "r","s","t","u","v","w","x","y","z","à","á","ó","í">>

LowerTable ==
    [c \in {UpperCase[k] : k \in 1..Len(UpperCase)} |->
        LowerCase[CHOOSE k \in 1..Len(UpperCase) : UpperCase[k] = c]]

UpperTable ==
    [c \in {LowerCase[k] : k \in 1..Len(LowerCase)} |->
        UpperCase[CHOOSE k \in 1..Len(LowerCase) : LowerCase[k] = c]]

\* one character of str.lower()
LowerChar(c) == IF c \in DOMAIN LowerTable THEN LowerTable[c] ELSE c

\* one character of str.upper()
UpperChar(c) == IF c \in DOMAIN UpperTable THEN UpperTable[c] ELSE c

RECURSIVE Lower(_)
Lower(s) ==
    IF Len(s) = 0 THEN ""
    ELSE LowerChar(SubSeq(s, 1, 1)) \o Lower(SubSeq(s, 2, Len(s)))

RECURSIVE Upper(_)
Upper(s) ==
    IF Len(s) = 0 THEN ""
    ELSE UpperChar(SubSeq(s, 1, 1)) \o Upper(SubSeq(s, 2, Len(s)))

RECURSIVE LStrip(_)
LStrip(s) ==
    IF Len(s) > 0 /\ SubSeq(s, 1, 1) \in Whitespace
    THEN LStrip(SubSeq(s, 2, Len(s)))
    ELSE s

RECURSIVE RStrip(_)
RStrip(s) ==
    IF Len(s) > 0 /\ SubSeq(s, Len(s), Len(s)) \in Whitespace
    THEN RStrip(SubSeq(s, 1, Len(s) - 1))
    ELSE s

\* str.strip()
Strip(s) == RStrip(LStrip(s))

\* sub in s
Contains(s, sub) ==
    \E k \in 1..(Len(s) - Len(sub) + 1) : SubSeq(s, k, k + Len(sub) - 1) = sub

\* s.replace(old, new): the non-overlapping occurrences of a non-empty old,
\* found left to right
RECURSIVE Replace(_, _, _)
Replace(s, old, new) ==
    IF Len(s) < Len(old) THEN s
    ELSE IF SubSeq(s, 1, Len(old)) = old
         THEN new \o Replace(SubSeq(s, Len(old) + 1, Len(s)), old, new)
         ELSE SubSeq(s, 1, 1) \o Replace(SubSeq(s, 2, Len(s)), old, new)

\* s.split(sep) for a one-character sep: a list of strings
RECURSIVE Split(_, _)
Split(s, sep) ==
    IF ~Contains(s, sep) THEN <<s>>
    ELSE LET k == CHOOSE j \in 1..Len(s) :
                     /\ SubSeq(s, j, j) = sep
                     /\ \A h \in 1..(j - 1) : SubSeq(s, h, h) # sep
         IN  <<SubSeq(s, 1, k - 1)>> \o Split(SubSeq(s, k + 1, Len(s)), sep)

\* sep.join(parts)
RECURSIVE Join(_, _)
Join(parts, sep) ==
    IF Len(parts) = 0 THEN ""
    ELSE IF Len(parts) = 1 THEN parts[1]
    ELSE parts[1] \o sep \o Join(Tail(parts), sep)

\* dict.get(key, default)
Get(d, key, default) == IF key \in DOMAIN d THEN d[key] ELSE default

(***************************************************************************)
(* normalize_location                                                      *)
(***************************************************************************)
\* the replacements dict, in insertion order
replacements ==
    << <<"xàbia", "javea">>,
       <<"xabia", "javea">>,
       <<"jávea", "javea">>,
       <<"pueblo", "casco antiguo">>,
       <<"old town", "casco antiguo">>,
       <<"arenal beach", "arenal">>,
       <<"puerto", "port">>,
       <<"portichol", "portitxol">> >>

RECURSIVE ApplyReplacements(_, _)
ApplyReplacements(s, k) ==
    IF k > Len(replacements) THEN s
    ELSE ApplyReplacements(Replace(s, replacements[k][1], replacements[k][2]), k + 1)

normalize_location(loc) == ApplyReplacements(Strip(Lower(loc)), 1)

(***************************************************************************)
(* are_properties_duplicate                                                *)
(***************************************************************************)
\* geopy's geodesic(coords1, coords2).meters.  A coordinate pair is written
\* <<north, east>> in whole metres from a reference point, and every pair of
\* the model lies on the reference meridian (east = 0), so the distance is
\* the difference of the northings.
geodesic(coords1, coords2) == Abs(coords1[1] - coords2[1])

\* default of the parameter max_distance_m
max_distance_m == 5

\* truth value of a tuple or None
Truthy(x) == x # None

\* titles and location texts of the listings compared
Titles == {"Villa Puerto", "Port Villa"}

Locations == {"Xabia", "Javea", "Javea, Arenal"}

\* normalize_location over the texts above, evaluated once
NormalizedText == [s \in Titles \cup Locations \cup {""} |-> normalize_location(s)]

Normalized(s) ==
    IF s \in DOMAIN NormalizedText THEN NormalizedText[s] ELSE normalize_location(s)

\* ---- superseded or faulty variants of are_properties_duplicate ----

\* whitespace-separated words of a text, as a set
WordSet(s) ==
    {SubSeq(s, ij[1], ij[2]) :
        ij \in {x \in (1..Len(s)) \X (1..Len(s)) :
                  /\ x[1] <= x[2]
                  /\ \A k \in x[1]..x[2] : SubSeq(s, k, k) \notin Whitespace
                  /\ x[1] = 1 \/ SubSeq(s, x[1] - 1, x[1] - 1) \in Whitespace
                  /\ x[2] = Len(s) \/ SubSeq(s, x[2] + 1, x[2] + 1) \in Whitespace}}

\* word overlap of two normalized titles, intersection over the larger set,
\* above 0.8
SimilarTitles(t1, t2) ==
    LET w1 == WordSet(t1)
        w2 == WordSet(t2)
        larger == Max(Cardinality(w1), Cardinality(w2))
    IN  larger > 0 /\ 10 * Cardinality(w1 \cap w2) > 8 * larger

\* price difference within 5% of the larger price
ClosePrices(price1, price2) ==
    100 * Abs(price1 - price2) <= 5 * Max(price1, price2)

\* the normalized text/price rule: equal normalized locations, and equal
\* normalized titles at equal prices or similar titles at close prices
TextPriceMatch(p1, p2) ==
    LET t1 == Normalized(Get(p1, "title", ""))
        t2 == Normalized(Get(p2, "title", ""))
        price1 == Get(p1, "price", 0)
        price2 == Get(p2, "price", 0)
    IN  /\ Normalized(Get(p1, "location", "")) = Normalized(Get(p2, "location", ""))
        /\ \/ t1 = t2 /\ price1 = price2
           \/ SimilarTitles(t1, t2) /\ ClosePrices(price1, price2)

\* the reference comparison moved under `if coords1 and coords2:`
DuplicateRefUnderCoords(p1, p2) ==
    LET ref1 == Strip(Get(p1, "source_reference", ""))
        ref2 == Strip(Get(p2, "source_reference", ""))
        coords1 == Get(p1, "coordinates", None)
        coords2 == Get(p2, "coordinates", None)
    IN  /\ Truthy(coords1) /\ Truthy(coords2)
        /\ \/ ref1 # "" /\ ref2 # "" /\ ref1 = ref2
           \/ /\ geodesic(coords1, coords2) < max_distance_m
              /\ Get(p1, "price", 0) = Get(p2, "price", 0)
              /\ Get(p1, "type", "") = Get(p2, "type", "")
              /\ Get(p1, "price", 0) > 0

\* `if ref1 and ref2: return ref1 == ref2`: two listings that both carry a
\* reference are decided by the references alone
DuplicateRefDecides(p1, p2) ==
    LET ref1 == Strip(Get(p1, "source_reference", ""))
        ref2 == Strip(Get(p2, "source_reference", ""))
        coords1 == Get(p1, "coordinates", None)
        coords2 == Get(p2, "coordinates", None)
    IN  IF ref1 # "" /\ ref2 # "" THEN ref1 = ref2
        ELSE /\ Truthy(coords1) /\ Truthy(coords2)
             /\ geodesic(coords1, coords2) < max_distance_m
             /\ Get(p1, "price", 0) = Get(p2, "price", 0)
             /\ Get(p1, "type", "") = Get(p2, "type", "")
             /\ Get(p1, "price", 0) > 0

\* the earlier revision's threshold, max_distance_m = 30
Duplicate30m(p1, p2) ==
    LET ref1 == Strip(Get(p1, "source_reference", ""))
        ref2 == Strip(Get(p2, "source_reference", ""))
        coords1 == Get(p1, "coordinates", None)
        coords2 == Get(p2, "coordinates", None)
    IN  \/ ref1 # "" /\ ref2 # "" /\ ref1 = ref2
        \/ /\ Truthy(coords1) /\ Truthy(coords2)
           /\ geodesic(coords1, coords2) < 30
           /\ Get(p1, "price", 0) = Get(p2, "price", 0)
           /\ Get(p1, "type", "") = Get(p2, "type", "")
           /\ Get(p1, "price", 0) > 0

\* the earlier revision's third rule kept after the two strict ones
DuplicateWithTextTier(p1, p2) ==
    LET ref1 == Strip(Get(p1, "source_reference", ""))
        ref2 == Strip(Get(p2, "source_reference", ""))
        coords1 == Get(p1, "coordinates", None)
        coords2 == Get(p2, "coordinates", None)
    IN  \/ ref1 # "" /\ ref2 # "" /\ ref1 = ref2
        \/ /\ Truthy(coords1) /\ Truthy(coords2)
           /\ geodesic(coords1, coords2) < max_distance_m
           /\ Get(p1, "price", 0) = Get(p2, "price", 0)
           /\ Get(p1, "type", "") = Get(p2, "type", "")
           /\ Get(p1, "price", 0) > 0
        \/ TextPriceMatch(p1, p2)

are_properties_duplicate(p1, p2) ==
    LET ref1 == Strip(Get(p1, "source_reference", ""))
        ref2 == Strip(Get(p2, "source_reference", ""))
        coords1 == Get(p1, "coordinates", None)
        coords2 == Get(p2, "coordinates", None)
        price1 == Get(p1, "price", 0)
        price2 == Get(p2, "price", 0)
        type1 == Get(p1, "type", "")
        type2 == Get(p2, "type", "")
    IN  IF ref1 # "" /\ ref2 # "" /\ ref1 = ref2 THEN TRUE
        ELSE IF /\ Truthy(coords1) /\ Truthy(coords2)
                /\ geodesic(coords1, coords2) < max_distance_m
                /\ price1 = price2 /\ type1 = type2 /\ price1 > 0
             THEN TRUE
             ELSE FALSE

(***************************************************************************)
(* One call of are_properties_duplicate                                    *)
(***************************************************************************)
\* source_reference values of the listings of the input file; a listing
\* may also lack the key
References == {"", " ", "A", " A", "B"}

\* resolved coordinates: points 0 m, 3 m and 8 m north of the reference point
Coordinates == {<<0, 0>>, <<3, 0>>, <<8, 0>>}

Prices == {0, 320000, 320001}

PropertyTypes == {"house", "apartment"}

\* the dicts of the input list: title, location, price and type are always
\* set by the scraper, source_reference may be missing, coordinates is set
\* by process_property only when geocoding succeeded
BaseFields ==
    [title : Titles, location : Locations, price : Prices, type : PropertyTypes]

WithReference(base) ==
    {[title |-> b.title, location |-> b.location, price |-> b.price,
      type |-> b.type, source_reference |-> r] : b \in base, r \in References}

WithCoordinates(base) ==
    {[title |-> b.title, location |-> b.location, price |-> b.price,
      type |-> b.type, coordinates |-> c] : b \in base, c \in Coordinates}

WithBoth(base) ==
    {[title |-> b.title, location |-> b.location, price |-> b.price,
      type |-> b.type, source_reference |-> r, coordinates |-> c] :
        b \in base, r \in References, c \in Coordinates}

Listings(base) ==
    base \cup WithReference(base) \cup WithCoordinates(base) \cup WithBoth(base)

Classify ==
    /\ cls_pc = "call"
    /\ cls_ret' = are_properties_duplicate(prop1, prop2)
    /\ cls_pc' = "ret"
    /\ UNCHANGED <<prop1, prop2, dd_vars, geo_vars, fn_vars, main_vars>>

(***************************************************************************)
(* One pass of deduplicate_properties                                      *)
(***************************************************************************)
MaxProperties == 3

\* the processed listings handed to the pass
DedupFields ==
    [id : {"JV-1"}, title : {"Villa Puerto"}, location : {"Javea, Arenal"},
     price : {0, 320000}, type : {"house"}]

DedupListings ==
    LET refs == {"A"}
        pts  == {<<0, 0>>, <<3, 0>>, <<6, 0>>}
    IN  DedupFields
        \cup {[id |-> b.id, title |-> b.title, location |-> b.location, price |-> b.price,
               type |-> b.type, source_reference |-> r] : b \in DedupFields, r \in refs}
        \cup {[id |-> b.id, title |-> b.title, location |-> b.location, price |-> b.price,
               type |-> b.type, coordinates |-> c] : b \in DedupFields, c \in pts}
        \cup {[id |-> b.id, title |-> b.title, location |-> b.location, price |-> b.price,
               type |-> b.type, source_reference |-> r, coordinates |-> c] :
                 b \in DedupFields, r \in refs, c \in pts}

\* faulty variant: the candidate is compared with the listing accepted last
\* only
FirstMatchLastOnly(props, prop, uniq, k) ==
    IF k <= Len(uniq) /\ are_properties_duplicate(prop, props[uniq[Len(uniq)]])
    THEN Len(uniq) ELSE 0

\* `for unique_prop in unique_properties: if are_properties_duplicate(prop,
\* unique_prop): ... break`: the position in unique_properties, from k on, of
\* the first listing the classifier matches prop with, 0 when the loop ends
\* without a match.  unique_properties holds the listings by their position
\* in the input list (the objects themselves, not copies).
RECURSIVE FirstMatch(_, _, _, _)
FirstMatch(props, prop, uniq, k) ==
    IF k > Len(uniq) THEN 0
    ELSE IF are_properties_duplicate(prop, props[uniq[k]]) THEN k
    ELSE FirstMatch(props, prop, uniq, k + 1)

\* positions in uniq of every listing the classifier matches prop with
AllMatches(props, prop, uniq) ==
    {k \in 1..Len(uniq) : are_properties_duplicate(prop, props[uniq[k]])}

\* faulty variant: `if not is_duplicate:` lost, every candidate is appended
DedupStepAppendsAlways ==
    /\ dd_pc = "loop"
    /\ dd_i <= Len(properties)
    /\ LET m == FirstMatch(properties, properties[dd_i], unique_properties, 1)
       IN  /\ IF m # 0
              THEN /\ duplicates_found' = duplicates_found + 1
                   /\ dup_log' = Append(dup_log, <<dd_i, unique_properties[m]>>)
              ELSE UNCHANGED <<duplicates_found, dup_log>>
           /\ unique_properties' = Append(unique_properties, dd_i)
    /\ dd_i' = dd_i + 1
    /\ UNCHANGED <<properties, dd_pc, cls_vars, geo_vars, fn_vars, main_vars>>

\* faulty variant: `break` lost, every matching accepted listing is counted
DedupStepNoBreak ==
    /\ dd_pc = "loop"
    /\ dd_i <= Len(properties)
    /\ LET ms == AllMatches(properties, properties[dd_i], unique_properties)
           m  == FirstMatch(properties, properties[dd_i], unique_properties, 1)
       IN  IF ms # {}
           THEN /\ duplicates_found' = duplicates_found + Cardinality(ms)
                /\ dup_log' = Append(dup_log, <<dd_i, unique_properties[m]>>)
                /\ UNCHANGED unique_properties
           ELSE /\ unique_properties' = Append(unique_properties, dd_i)
                /\ UNCHANGED <<duplicates_found, dup_log>>
    /\ dd_i' = dd_i + 1
    /\ UNCHANGED <<properties, dd_pc, cls_vars, geo_vars, fn_vars, main_vars>>

\* faulty variant: the candidate is compared with every earlier candidate,
\* accepted or not
DedupStepAgainstAllEarlier ==
    /\ dd_pc = "loop"
    /\ dd_i <= Len(properties)
    /\ LET m == FirstMatch(properties, properties[dd_i], [k \in 1..dd_i - 1 |-> k], 1)
       IN  IF m # 0
           THEN /\ duplicates_found' = duplicates_found + 1
                /\ dup_log' = Append(dup_log, <<dd_i, m>>)
                /\ UNCHANGED unique_properties
           ELSE /\ unique_properties' = Append(unique_properties, dd_i)
                /\ UNCHANGED <<duplicates_found, dup_log>>
    /\ dd_i' = dd_i + 1
    /\ UNCHANGED <<properties, dd_pc, cls_vars, geo_vars, fn_vars, main_vars>>

\* faulty variant: a duplicate takes the place of the listing it matched
DedupStepKeepsLatest ==
    /\ dd_pc = "loop"
    /\ dd_i <= Len(properties)
    /\ LET m == FirstMatch(properties, properties[dd_i], unique_properties, 1)
       IN  IF m # 0
           THEN /\ duplicates_found' = duplicates_found + 1
                /\ dup_log' = Append(dup_log, <<dd_i, unique_properties[m]>>)
                /\ unique_properties' = [unique_properties EXCEPT ![m] = dd_i]
           ELSE /\ unique_properties' = Append(unique_properties, dd_i)
                /\ UNCHANGED <<duplicates_found, dup_log>>
    /\ dd_i' = dd_i + 1
    /\ UNCHANGED <<properties, dd_pc, cls_vars, geo_vars, fn_vars, main_vars>>

\* one iteration of `for prop in properties`.  The line printed for a
\* duplicate reads prop['id'] and unique_prop['id']: a listing without an id
\* raises KeyError there, which nothing catches.
DedupStep ==
    /\ dd_pc = "loop"
    /\ dd_i <= Len(properties)
    /\ LET m == FirstMatch(properties, properties[dd_i], unique_properties, 1)
       IN  IF m # 0
           THEN IF /\ "id" \in DOMAIN properties[dd_i]
                   /\ "id" \in DOMAIN properties[unique_properties[m]]
                THEN /\ duplicates_found' = duplicates_found + 1
                     /\ dup_log' = Append(dup_log, <<dd_i, unique_properties[m]>>)
                     /\ dd_i' = dd_i + 1
                     /\ UNCHANGED <<unique_properties, dd_pc>>
                ELSE /\ dd_pc' = "raised"
                     /\ UNCHANGED <<unique_properties, duplicates_found, dup_log, dd_i>>
           ELSE /\ unique_properties' = Append(unique_properties, dd_i)
                /\ dd_i' = dd_i + 1
                /\ UNCHANGED <<duplicates_found, dup_log, dd_pc>>
    /\ UNCHANGED <<properties, cls_vars, geo_vars, fn_vars, main_vars>>

\* the loop is exhausted: return unique_properties
DedupReturn ==
    /\ dd_pc = "loop"
    /\ dd_i > Len(properties)
    /\ dd_pc' = "done"
    /\ UNCHANGED <<properties, dd_i, unique_properties, duplicates_found, dup_log,
                   cls_vars, geo_vars, fn_vars, main_vars>>

\* deduplicate_properties(props) as a function, from position k on with uniq
\* accepted so far: the positions in props of the listings it returns
RECURSIVE deduplicate_properties(_, _, _)
deduplicate_properties(props, k, uniq) ==
    IF k > Len(props) THEN uniq
    ELSE IF FirstMatch(props, props[k], uniq, 1) # 0
         THEN deduplicate_properties(props, k + 1, uniq)
         ELSE deduplicate_properties(props, k + 1, Append(uniq, k))

(***************************************************************************)
(* get_coordinates                                                          *)
(***************************************************************************)
\* the known_locations list of extract_location_from_title, in order
known_locations ==
    <<"Costa Nova", "Cala Blanca", "Cala Granadella", "Granadella",
      "Cumbres Del Tosalet", "Tosalet", "Balcon al Mar", "Balcón al Mar",
      "Cap Marti", "Cap Martí", "Portichol", "Portitxol",
      "Arenal", "Arenal Beach", "Playa Arenal",
      "Pinosol", "Adsubia", "La Lluca",
      "Montgo", "Montgó", "Monte Pego",
      "Pueblo", "Old Town", "Casco Antiguo",
      "Puerto", "Port", "Marina",
      "Gracia", "Gràcia",
      "Toscamar", "El Tosalet", "Piver",
      "La Corona", "Rafalet", "Capsades">>

known_locations_upper == [k \in 1..Len(known_locations) |-> Upper(known_locations[k])]

\* `for location in known_locations: if location.upper() in title_upper:
\* locations_found.append(location)`, from position k on
RECURSIVE LocationsFound(_, _)
LocationsFound(title_upper, k) ==
    IF k > Len(known_locations) THEN <<>>
    ELSE (IF Contains(title_upper, known_locations_upper[k])
          THEN <<known_locations[k]>> ELSE <<>>)
         \o LocationsFound(title_upper, k + 1)

extract_location_from_title(t) ==
    IF t = "" THEN <<>> ELSE LocationsFound(Upper(t), 1)

\* [p.strip() for p in parts]
StripAll(parts) == [k \in 1..Len(parts) |-> Strip(parts[k])]

\* [p for p in parts if p and p != 'javea']
RECURSIVE FilteredParts(_)
FilteredParts(parts) ==
    IF Len(parts) = 0 THEN <<>>
    ELSE (IF parts[1] # "" /\ parts[1] # "javea" THEN <<parts[1]>> ELSE <<>>)
         \o FilteredParts(Tail(parts))

strip_javea_from_location(loc) ==
    IF loc = "" THEN loc
    ELSE LET filtered_parts == FilteredParts(StripAll(Split(normalize_location(loc), ",")))
         IN  IF Len(filtered_parts) > 0 THEN Join(filtered_parts, ", ") ELSE ""

\* Priority 1: two queries per title location
RECURSIVE TitleQueries(_)
TitleQueries(title_locations) ==
    IF Len(title_locations) = 0 THEN <<>>
    ELSE LET title_loc_clean == normalize_location(title_locations[1])
         IN  <<title_loc_clean \o ", Javea, Alicante, Spain",
               title_loc_clean \o ", Javea, Spain">>
             \o TitleQueries(Tail(title_locations))

\* Priority 2 and 3: the location field
LocationQueries(location_clean) ==
    IF location_clean = "" THEN <<>>
    ELSE <<location_clean \o ", Javea, Alicante, Spain",
           location_clean \o ", Javea, Spain",
           location_clean \o ", Alicante, Valencia, Spain",
           location_clean \o ", Valencia, Spain">>

\* faulty variant: the town itself is asked for as a last resort
search_queries_with_anchor(t, loc) ==
    TitleQueries(extract_location_from_title(t))
    \o LocationQueries(strip_javea_from_location(loc))
    \o <<"Javea, Alicante, Spain">>

search_queries(t, loc) ==
    TitleQueries(extract_location_from_title(t))
    \o LocationQueries(strip_javea_from_location(loc))

\* faulty variant: `seen` is never filled, every query is kept
UniqueSeenNothing(queries, seen) == queries

\* "Remove duplicates while preserving order"
RECURSIVE Unique(_, _)
Unique(queries, seen) ==
    IF Len(queries) = 0 THEN <<>>
    ELSE IF queries[1] \in seen THEN Unique(Tail(queries), seen)
    ELSE <<queries[1]>> \o Unique(Tail(queries), seen \cup {queries[1]})

BuildQueries(t, loc) == Unique(search_queries(t, loc), {})

cache_key(t, loc) == t \o "_" \o loc

max_retries == 3

\* time.sleep arguments, in tenths of a second
QueryDelay == 12

\* faulty variant: a linear backoff
wait_time_linear(a) == (a + 1) * 20

\* `wait_time = (2 ** attempt) * 2`
wait_time(a) == (2 ^ a) * 20

\* str(e) of the exceptions geolocator.geocode raises
ErrorMessages ==
    {"Non-successful status code 503", "Service timed out",
     "Non-successful status code 400"}

\* faulty variant: a timeout counts as a rate-limit signal
IsRateLimitOrTimeout(message) ==
    LET error_str == Lower(message)
    IN  \/ Contains(error_str, "403")
        \/ Contains(error_str, "503")
        \/ Contains(error_str, "too many")
        \/ Contains(error_str, "timed out")

\* `'403' in error_str or '503' in error_str or 'too many' in error_str`
IsRateLimit(message) ==
    LET error_str == Lower(message)
    IN  \/ Contains(error_str, "403")
        \/ Contains(error_str, "503")
        \/ Contains(error_str, "too many")

\* coordinates the external lookup may report
GeocodeResults == {<<0, 0>>, <<3, 0>>}

\* (title, location) of the candidates of a run: no query, two queries from
\* the title, four queries from the location field
GeoCandidates == {<<"", "">>, <<"Villa Port", "">>, <<"Villa", "Xabia, Arenal">>}

\* get_coordinates is called at most MaxCalls times in a run
MaxCalls == 2

\* the query list of every candidate of the run, and the messages the
\* rate-limit test accepts, evaluated once
QueryTable == [p \in GeoCandidates |-> BuildQueries(p[1], p[2])]

Queries(t, loc) ==
    IF <<t, loc>> \in DOMAIN QueryTable THEN QueryTable[<<t, loc>>] ELSE BuildQueries(t, loc)

RateLimitMessages == {message \in ErrorMessages : IsRateLimit(message)}

NothingSent == [query |-> "", tries |-> 0]

\* upload_to_supabase was not called
NoUpload == [pc |-> "idle", success_count |-> 0, error_count |-> 0]

CallRecord(t, loc, ret, n) == [title |-> t, location |-> loc, ret |-> ret, lookups |-> n]

\* faulty variant: the cache keeps only the entry written last
CachePutReplacesAll(cache, key, coords) ==
    [k \in {key} |-> coords]

\* geocode_cache[key] = coords
CachePut(cache, key, coords) ==
    [k \in DOMAIN cache \cup {key} |-> IF k = key THEN coords ELSE cache[k]]

\* faulty variant: the call never consults the cache
GetCoordinatesNoCacheTest(t, loc) ==
    /\ geo_pc = "idle"
    /\ Len(completed) < MaxCalls
    /\ translated = Len(completed)
    /\ title' = t
    /\ location' = loc
    /\ lookups' = 0
    /\ sent' = [query |-> "", tries |-> 0]
    /\ qi' = 1
    /\ attempt' = 0
    /\ LET queries == BuildQueries(t, loc)
       IN  /\ unique_queries' = queries
           /\ IF Len(queries) = 0
              THEN /\ geo_ret' = None
                   /\ completed' = Append(completed,
                          [title |-> t, location |-> loc, ret |-> None, lookups |-> 0])
                   /\ UNCHANGED geo_pc
              ELSE /\ geo_pc' = "loop"
                   /\ UNCHANGED <<geo_ret, completed>>
    /\ UNCHANGED <<geocode_cache, sleeps, last_answer, translated, cls_vars, dd_vars, fn_vars, main_vars>>

\* get_coordinates(t, loc) is called: the cache test, and on a miss the query
\* list, up to the first external lookup.  A hit returns at once; so does a
\* miss with an empty query list, with None.
GetCoordinates(t, loc) ==
    /\ geo_pc = "idle"
    /\ Len(completed) < MaxCalls
    /\ translated = Len(completed)
    /\ title' = t
    /\ location' = loc
    /\ lookups' = 0
    /\ sent' = NothingSent
    /\ qi' = 1
    /\ attempt' = 0
    /\ IF cache_key(t, loc) \in DOMAIN geocode_cache
       THEN /\ geo_ret' = geocode_cache[cache_key(t, loc)]
            /\ completed' = Append(completed,
                   CallRecord(t, loc, geocode_cache[cache_key(t, loc)], 0))
            /\ UNCHANGED <<geo_pc, unique_queries>>
       ELSE LET queries == Queries(t, loc)
            IN  /\ unique_queries' = queries
                /\ IF Len(queries) = 0
                   THEN /\ geo_ret' = None
                        /\ completed' = Append(completed, CallRecord(t, loc, None, 0))
                        /\ UNCHANGED geo_pc
                   ELSE /\ geo_pc' = "loop"
                        /\ UNCHANGED <<geo_ret, completed>>
    /\ UNCHANGED <<geocode_cache, sleeps, last_answer, translated, cls_vars, dd_vars, fn_vars, main_vars>>

\* what every geolocator.geocode(query) call shows, whatever it answers
Lookup(answer) ==
    /\ geo_pc = "loop"
    /\ qi <= Len(unique_queries)
    /\ lookups' = lookups + 1
    /\ sent' = [query |-> unique_queries[qi],
                tries |-> IF sent.query = unique_queries[qi] THEN sent.tries + 1 ELSE 1]
    /\ last_answer' = answer

\* `break` out of the retry loop, time.sleep(1.2), then the next query, or
\* `return None` after the last one; slept is what was slept before the break
NextQuery(slept) ==
    /\ sleeps' = slept \o <<QueryDelay>>
    /\ qi' = qi + 1
    /\ attempt' = 0
    /\ IF qi + 1 > Len(unique_queries)
       THEN /\ geo_pc' = "idle"
            /\ geo_ret' = None
            /\ completed' = Append(completed, CallRecord(title, location, None, lookups + 1))
       ELSE UNCHANGED <<geo_pc, geo_ret, completed>>

\* faulty variant: the result is cached under the query that found it
GeocodeFoundKeyedByQuery(coords) ==
    /\ Lookup([kind |-> "found", coords |-> coords])
    /\ geocode_cache' = CachePut(geocode_cache, unique_queries[qi], coords)
    /\ geo_ret' = coords
    /\ geo_pc' = "idle"
    /\ sleeps' = <<>>
    /\ completed' = Append(completed, CallRecord(title, location, coords, lookups + 1))
    /\ UNCHANGED <<title, location, unique_queries, qi, attempt, translated, cls_vars, dd_vars, fn_vars, main_vars>>

\* faulty variant: `break` in place of `return coords`
GeocodeFoundContinues(coords) ==
    /\ Lookup([kind |-> "found", coords |-> coords])
    /\ geocode_cache' = CachePut(geocode_cache, cache_key(title, location), coords)
    /\ NextQuery(<<>>)
    /\ UNCHANGED <<title, location, unique_queries, translated, cls_vars, dd_vars, fn_vars, main_vars>>

\* the lookup returns a place: cache it under the call's key and return it
GeocodeFound(coords) ==
    /\ Lookup([kind |-> "found", coords |-> coords])
    /\ geocode_cache' = CachePut(geocode_cache, cache_key(title, location), coords)
    /\ geo_ret' = coords
    /\ geo_pc' = "idle"
    /\ sleeps' = <<>>
    /\ completed' = Append(completed, CallRecord(title, location, coords, lookups + 1))
    /\ UNCHANGED <<title, location, unique_queries, qi, attempt, translated, cls_vars, dd_vars, fn_vars, main_vars>>

\* the lookup returns None: "No result found for this query, try next one"
GeocodeNoResult ==
    /\ Lookup([kind |-> "none"])
    /\ NextQuery(<<>>)
    /\ UNCHANGED <<geocode_cache, title, location, unique_queries, translated, cls_vars, dd_vars, fn_vars, main_vars>>

\* faulty variant: a rate-limited query is retried without a last attempt
GeocodeRateLimitedForever(message) ==
    /\ message \in RateLimitMessages
    /\ Lookup([kind |-> "error", message |-> message])
    /\ sleeps' = <<wait_time(attempt)>>
    /\ attempt' = attempt + 1
    /\ UNCHANGED <<qi, geo_pc, geo_ret, completed, geocode_cache, title, location,
                   unique_queries, translated, cls_vars, dd_vars, fn_vars, main_vars>>

\* the lookup raises, with a rate-limit message: sleep wait_time, then the
\* same query again unless this was the last attempt
GeocodeRateLimited(message) ==
    /\ message \in RateLimitMessages
    /\ Lookup([kind |-> "error", message |-> message])
    /\ IF attempt = max_retries - 1
       THEN NextQuery(<<wait_time(attempt)>>)
       ELSE /\ sleeps' = <<wait_time(attempt)>>
            /\ attempt' = attempt + 1
            /\ UNCHANGED <<qi, geo_pc, geo_ret, completed>>
    /\ UNCHANGED <<geocode_cache, title, location, unique_queries, translated, cls_vars, dd_vars, fn_vars, main_vars>>

\* faulty variant: any error is retried like a rate-limit error
GeocodeErrorRetried(message) ==
    /\ message \notin RateLimitMessages
    /\ Lookup([kind |-> "error", message |-> message])
    /\ IF attempt = max_retries - 1
       THEN NextQuery(<<wait_time(attempt)>>)
       ELSE /\ sleeps' = <<wait_time(attempt)>>
            /\ attempt' = attempt + 1
            /\ UNCHANGED <<qi, geo_pc, geo_ret, completed>>
    /\ UNCHANGED <<geocode_cache, title, location, unique_queries, translated,
                   cls_vars, dd_vars, fn_vars, main_vars>>

\* faulty variant: the exception of the lookup leaves get_coordinates
GeocodeErrorPropagates(message) ==
    /\ message \notin RateLimitMessages
    /\ Lookup([kind |-> "error", message |-> message])
    /\ geo_pc' = "raised"
    /\ UNCHANGED <<geocode_cache, title, location, unique_queries, qi, attempt, geo_ret,
                   sleeps, completed, translated, cls_vars, dd_vars, fn_vars, main_vars>>

\* the lookup raises, with any other message: "log and move to next query"
GeocodeError(message) ==
    /\ message \notin RateLimitMessages
    /\ Lookup([kind |-> "error", message |-> message])
    /\ NextQuery(<<>>)
    /\ UNCHANGED <<geocode_cache, title, location, unique_queries, translated, cls_vars, dd_vars, fn_vars, main_vars>>

\* time.sleep(0.3) of translate_text, in tenths of a second
translate_delay == 3

\* how many translate_text calls of one translate_property reach their sleep:
\* up to three for the title and three for the description, none for a text
\* that is empty, already in the target language or whose translation fails
TranslationCounts == 0..6

\* process_property after get_coordinates has returned: translate_property
\* with n translations made
TranslateProperty(n) ==
    /\ geo_pc = "idle"
    /\ translated < Len(completed)
    /\ translated' = Len(completed)
    /\ sleeps' = sleeps \o [k \in 1..n |-> translate_delay]
    /\ UNCHANGED <<geocode_cache, geo_pc, title, location, unique_queries, qi, attempt,
                   geo_ret, lookups, sent, last_answer, completed,
                   cls_vars, dd_vars, fn_vars, main_vars>>

(***************************************************************************)
(* The text functions, called on their own                                  *)
(***************************************************************************)
\* pieces of location text: spellings of the town, area names, the keys and
\* the values of the replacement table and parts of them
Fragments ==
    {"Xabia", "Javea", ", ", "arenal beach", " beach", "Arenal", "Puerto", "port",
     "ichol", "Pueblo", "old town", "Cap Marti"}

\* a location text is made of at most MaxFragments pieces
MaxFragments == 2

RECURSIVE Concat(_)
Concat(parts) == IF Len(parts) = 0 THEN "" ELSE parts[1] \o Concat(Tail(parts))

FnLocations ==
    {Concat(parts) : parts \in UNION {[1..n -> Fragments] : n \in 0..MaxFragments}}

FnTitles == {"", "Villa", "Villa Arenal Beach", "Portichol Port"}

\* the area_mappings dict of extract_municipality_and_area, in order
area_mappings ==
    <<<<"arenal", "arenal">>, <<"beach", "arenal">>,
      <<"portichol", "portitxol">>, <<"portitxol", "portitxol">>,
      <<"puerto", "puerto">>, <<"port", "puerto">>,
      <<"old town", "casco-antiguo">>, <<"casco antiguo", "casco-antiguo">>,
      <<"pueblo", "casco-antiguo">>,
      <<"cap marti", "cap-marti">>, <<"cap martí", "cap-marti">>,
      <<"granadella", "granadella">>,
      <<"montgo", "montgo">>, <<"montgó", "montgo">>,
      <<"gracia", "gracia">>, <<"gràcia", "gracia">>,
      <<"adsubia", "adsubia">>,
      <<"balcon al mar", "balcon-al-mar">>, <<"balcón al mar", "balcon-al-mar">>,
      <<"pinosol", "pinosol">>>>

\* faulty variant: the loop has no `break`, the last key found decides
RECURSIVE AreaOfLastKey(_, _)
AreaOfLastKey(location_normalized, k) ==
    IF k > Len(area_mappings) THEN <<>>
    ELSE LET later == AreaOfLastKey(location_normalized, k + 1)
         IN  IF Len(later) > 0 THEN later
             ELSE IF Contains(location_normalized, area_mappings[k][1])
                  THEN <<area_mappings[k][2]>> ELSE <<>>

\* `for key, slug in area_mappings.items(): if key in location_normalized:
\* area = slug; break`, from position k on; <<>> when area stays None
RECURSIVE AreaOf(_, _)
AreaOf(location_normalized, k) ==
    IF k > Len(area_mappings) THEN <<>>
    ELSE IF Contains(location_normalized, area_mappings[k][1])
         THEN <<area_mappings[k][2]>>
         ELSE AreaOf(location_normalized, k + 1)

\* the pair (municipality, area) as a record; area None is a missing field
extract_municipality_and_area(loc) ==
    LET area == AreaOf(normalize_location(loc), 1)
    IN  IF Len(area) = 0 THEN [municipality |-> "Javea"]
        ELSE [municipality |-> "Javea", area |-> area[1]]

\* normalize_location is called on the location, and again on what it
\* returned
NormalizeLocation ==
    /\ \/ fn_pc = "call"
       \/ fn_pc = "ret" /\ fn_ret.fn = "normalize_location" /\ fn_ret.calls < 2
    /\ LET arg == IF fn_pc = "call" THEN fn_location ELSE fn_ret.ret
       IN  fn_ret' = [fn |-> "normalize_location", arg |-> arg,
                      ret |-> normalize_location(arg),
                      calls |-> IF fn_pc = "call" THEN 1 ELSE 2]
    /\ fn_pc' = "ret"
    /\ UNCHANGED <<fn_title, fn_location, cls_vars, dd_vars, geo_vars, main_vars>>

ExtractMunicipalityAndArea ==
    /\ fn_pc = "call"
    /\ fn_ret' = [fn |-> "extract_municipality_and_area",
                  ret |-> extract_municipality_and_area(fn_location)]
    /\ fn_pc' = "ret"
    /\ UNCHANGED <<fn_title, fn_location, cls_vars, dd_vars, geo_vars, main_vars>>

\* lines 102-139 of get_coordinates: the query list as built, and as issued
BuildSearchQueries ==
    /\ fn_pc = "call"
    /\ fn_ret' = [fn |-> "get_coordinates",
                  search_queries |-> search_queries(fn_title, fn_location),
                  unique_queries |-> BuildQueries(fn_title, fn_location)]
    /\ fn_pc' = "ret"
    /\ UNCHANGED <<fn_title, fn_location, cls_vars, dd_vars, geo_vars, main_vars>>

(***************************************************************************)
(* main() of process_and_upload.py and of new_upload.py                     *)
(***************************************************************************)
Scripts == {"process_and_upload.py", "new_upload.py"}

\* the files os.path.exists finds
ExistingFiles == {"scraped.json"}

\* sys.argv of the runs, the script name first
CommandLines(s) ==
    {<<s>>, <<s, "scraped.json">>, <<s, "scraped.json", "--upload">>,
     <<s, "--upload", "scraped.json">>, <<s, "scraped.json", "--up">>,
     <<s, "--sync">>, <<s, "missing.json", "--upload">>}

\* the input file holds at most MaxCandidates listings
MaxCandidates == 2

\* (title, location) of the listings of the input file: for both,
\* f"{title}_{location}" is 'Villa Port_Xabia_Arenal'
MainPlaces == {<<"Villa Port", "Xabia_Arenal">>, <<"Villa Port_Xabia", "Arenal">>}

\* the listings of the input file; a listing may lack its id
MainFields ==
    {[title |-> place[1], location |-> place[2], price |-> 320000, type |-> "house",
      source_reference |-> r, images |-> <<>>, specs |-> [bedrooms |-> 3]] :
        place \in MainPlaces, r \in {"A", "B"}}

MainListings ==
    MainFields
    \cup {[id |-> i, title |-> b.title, location |-> b.location, price |-> b.price,
           type |-> b.type, source_reference |-> b.source_reference,
           images |-> b.images, specs |-> b.specs] : b \in MainFields, i \in {"JV-1", "JV-2"}}

\* d[key] = value
Put(d, key, value) ==
    [k \in DOMAIN d \cup {key} |-> IF k = key THEN value ELSE d[k]]

\* what the translator returns for a text
Translate(text, target_lang) == "[" \o target_lang \o "] " \o text

\* translate_property for a title detected as Spanish and no description:
\* title_en and title_ru are the translations, or the title itself when the
\* translator fails
translate_property(prop, translator_works) ==
    IF Get(prop, "title", "") = "" THEN prop
    ELSE Put(Put(prop, "title_en",
                 IF translator_works THEN Translate(prop.title, "en") ELSE prop.title),
             "title_ru",
             IF translator_works THEN Translate(prop.title, "ru") ELSE prop.title)

\* process_property raises before it changes prop: prop['id'] of line 441
ProcessRaises(prop) == "id" \notin DOMAIN prop

\* process_property(prop) when it does not raise, get_coordinates returning
\* coords
process_property(prop, coords, translator_works) ==
    LET loc      == Get(prop, "location", "")
        found    == extract_municipality_and_area(loc)
        withTown == Put(prop, "municipality", found.municipality)
        withArea == IF "area" \in DOMAIN found
                    THEN Put(withTown, "area", found.area) ELSE withTown
        withGeo  == IF coords # None
                    THEN Put(Put(Put(withArea, "coordinates", coords),
                                 "latitude", coords[1]), "longitude", coords[2])
                    ELSE withArea
    IN  translate_property(withGeo, translator_works)

\* faulty variant: the upload is on unless it is switched off
should_upload_by_default == ~(\E k \in 1..Len(argv) : argv[k] = "--no-upload")

\* `should_upload = '--upload' in sys.argv`
should_upload == \E k \in 1..Len(argv) : argv[k] = "--upload"

\* main() of process_and_upload.py up to the processing loop; with --sync
\* it only reads the store into a local file
MainStart ==
    /\ script = "process_and_upload.py"
    /\ main_pc = "start"
    /\ main_pc' = IF Len(argv) >= 2 /\ argv[2] = "--sync" THEN "synced"
                  ELSE IF Len(argv) < 2 THEN "exit"
                  ELSE IF argv[2] \notin ExistingFiles THEN "exit"
                  ELSE "process"
    /\ UNCHANGED <<script, argv, candidates, main_i, processed_properties, dry_run, upserts,
                   upload_summary,
                   cls_vars, dd_vars, geo_vars, fn_vars>>

\* faulty variant: no try around process_property, the exception ends main
ProcessStepPropagates(coords, translator_works) ==
    /\ script = "process_and_upload.py"
    /\ main_pc = "process"
    /\ main_i <= Len(candidates)
    /\ LET prop == candidates[main_i]
           key  == cache_key(Get(prop, "title", ""), Get(prop, "location", ""))
       IN  IF ProcessRaises(prop)
           THEN /\ coords = None
                /\ translator_works
                /\ main_pc' = "aborted"
                /\ UNCHANGED <<processed_properties, geocode_cache, main_i>>
           ELSE /\ key \in DOMAIN geocode_cache => coords = geocode_cache[key]
                /\ processed_properties' =
                      Append(processed_properties,
                             process_property(prop, coords, translator_works))
                /\ geocode_cache' = IF coords # None
                                    THEN CachePut(geocode_cache, key, coords)
                                    ELSE geocode_cache
                /\ main_i' = main_i + 1
                /\ UNCHANGED main_pc
    /\ UNCHANGED <<script, argv, candidates, dry_run, upserts, upload_summary, cls_vars,
                   dd_vars, fn_vars,
                   geo_pc, title, location, unique_queries, qi, attempt, geo_ret, lookups,
                   sent, sleeps, last_answer, completed, translated>>

\* one iteration of the loop of lines 697-705.  get_coordinates is taken by
\* what it returns (the cached value, else coordinates or None; a listing
\* without any query gets None) and by what it leaves in geocode_cache.
ProcessStep(coords, translator_works) ==
    /\ script = "process_and_upload.py"
    /\ main_pc = "process"
    /\ main_i <= Len(candidates)
    /\ LET prop == candidates[main_i]
           key  == cache_key(Get(prop, "title", ""), Get(prop, "location", ""))
       IN  IF ProcessRaises(prop)
           THEN /\ coords = None
                /\ translator_works
                /\ processed_properties' = Append(processed_properties, prop)
                /\ UNCHANGED geocode_cache
           ELSE /\ key \in DOMAIN geocode_cache => coords = geocode_cache[key]
                /\ Len(Queries(Get(prop, "title", ""), Get(prop, "location", ""))) = 0
                      => coords = None
                /\ processed_properties' =
                      Append(processed_properties,
                             process_property(prop, coords, translator_works))
                /\ geocode_cache' = IF coords # None
                                    THEN CachePut(geocode_cache, key, coords)
                                    ELSE geocode_cache
    /\ main_i' = main_i + 1
    /\ UNCHANGED <<script, argv, candidates, main_pc, dry_run, upserts, upload_summary,
                   cls_vars, dd_vars,
                   fn_vars, geo_pc, title, location, unique_queries, qi, attempt, geo_ret,
                   lookups, sent, sleeps, last_answer, completed, translated>>

\* lines 707-714: the processed list is saved and handed to
\* deduplicate_properties
MainDeduplicate ==
    /\ script = "process_and_upload.py"
    /\ main_pc = "process"
    /\ main_i > Len(candidates)
    /\ main_pc' = "dedup"
    /\ properties' = processed_properties
    /\ dd_i' = 1
    /\ unique_properties' = <<>>
    /\ duplicates_found' = 0
    /\ dup_log' = <<>>
    /\ dd_pc' = "loop"
    /\ UNCHANGED <<script, argv, candidates, main_i, processed_properties, dry_run, upserts,
                   upload_summary,
                   cls_vars, geo_vars, fn_vars>>

\* the keys upload_to_supabase reads with prop[...]
RequiredKeys == {"id", "type", "title", "price", "location", "images", "specs"}

\* the loop of upload_to_supabase from position k on, the store refusing the
\* upserts of the positions in failing: the upserts sent, the two counters,
\* and whether the loop was left by an exception.  A listing that lacks a
\* required key raises KeyError inside the try, before the upsert; the
\* handler prints prop['id'] and counts an error, and raises again when the
\* id is the key that lacks.
RECURSIVE upload_to_supabase(_, _, _)
upload_to_supabase(props, failing, k) ==
    IF k > Len(props)
    THEN [sent |-> <<>>, success_count |-> 0, error_count |-> 0, raised |-> FALSE]
    ELSE IF "id" \notin DOMAIN props[k]
    THEN [sent |-> <<>>, success_count |-> 0, error_count |-> 0, raised |-> TRUE]
    ELSE LET rest == upload_to_supabase(props, failing, k + 1)
         IN  IF ~(RequiredKeys \subseteq DOMAIN props[k])
             THEN [rest EXCEPT !.error_count = @ + 1]
             ELSE [sent |-> <<[at |-> k, id |-> props[k].id, ok |-> k \notin failing]>>
                            \o rest.sent,
                   success_count |-> rest.success_count + (IF k \in failing THEN 0 ELSE 1),
                   error_count |-> rest.error_count + (IF k \in failing THEN 1 ELSE 0),
                   raised |-> rest.raised]

\* faulty variant: the processed list is uploaded, not the deduplicated one
UploadToSupabaseAll(credentials, failing) ==
    /\ script = "process_and_upload.py"
    /\ main_pc = "dedup"
    /\ dd_pc = "done"
    /\ failing \subseteq 1..Len([k \in 1..Len(properties) |-> k])
    /\ IF ~should_upload
       THEN /\ main_pc' = "done"
            /\ failing = {}
            /\ UNCHANGED <<upserts, upload_summary>>
       ELSE IF ~credentials
       THEN /\ main_pc' = "done"
            /\ failing = {}
            /\ upload_summary' = [NoUpload EXCEPT !.pc = "ValueError"]
            /\ UNCHANGED upserts
       ELSE LET given == [k \in 1..Len(properties) |-> k]
                done  == upload_to_supabase(
                             [k \in 1..Len(given) |-> properties[given[k]]], failing, 1)
            IN  /\ upserts' = upserts \o
                       [k \in 1..Len(done.sent) |->
                           [listing |-> given[done.sent[k].at],
                            id |-> done.sent[k].id, ok |-> done.sent[k].ok]]
                /\ upload_summary' =
                       [pc |-> IF done.raised THEN "KeyError"
                               ELSE IF done.success_count > 0 THEN "NameError"
                               ELSE "returned",
                        success_count |-> done.success_count,
                        error_count |-> done.error_count]
                /\ main_pc' = IF done.raised \/ done.success_count > 0
                              THEN "aborted" ELSE "done"
    /\ UNCHANGED <<script, argv, candidates, main_i, processed_properties, dry_run,
                   cls_vars, dd_vars, geo_vars, fn_vars>>

\* lines 722-731 with upload_to_supabase: the upload, `if should_upload`, of
\* the listings of unique_properties (positions of the batch).  Without the
\* credentials get_supabase_client raises ValueError, which main catches.
\* After the loop, `if success_count > 0: clear_vercel_cache()` calls a name
\* the module neither defines nor imports: NameError, which main does not
\* catch, as it does not catch the KeyError of the loop.
UploadToSupabase(credentials, failing) ==
    /\ script = "process_and_upload.py"
    /\ main_pc = "dedup"
    /\ dd_pc = "done"
    /\ failing \subseteq 1..Len(unique_properties)
    /\ IF ~should_upload
       THEN /\ main_pc' = "done"
            /\ failing = {}
            /\ UNCHANGED <<upserts, upload_summary>>
       ELSE IF ~credentials
       THEN /\ main_pc' = "done"
            /\ failing = {}
            /\ upload_summary' = [NoUpload EXCEPT !.pc = "ValueError"]
            /\ UNCHANGED upserts
       ELSE LET given == unique_properties
                done  == upload_to_supabase(
                             [k \in 1..Len(given) |-> properties[given[k]]], failing, 1)
            IN  /\ upserts' = upserts \o
                       [k \in 1..Len(done.sent) |->
                           [listing |-> given[done.sent[k].at],
                            id |-> done.sent[k].id, ok |-> done.sent[k].ok]]
                /\ upload_summary' =
                       [pc |-> IF done.raised THEN "KeyError"
                               ELSE IF done.success_count > 0 THEN "NameError"
                               ELSE "returned",
                        success_count |-> done.success_count,
                        error_count |-> done.error_count]
                /\ main_pc' = IF done.raised \/ done.success_count > 0
                              THEN "aborted" ELSE "done"
    /\ UNCHANGED <<script, argv, candidates, main_i, processed_properties, dry_run,
                   cls_vars, dd_vars, geo_vars, fn_vars>>

IsPrefix(prefix, s) ==
    Len(prefix) <= Len(s) /\ SubSeq(s, 1, Len(prefix)) = prefix

\* argparse takes an unambiguous abbreviation of --upload for the flag
IsUploadFlag(arg) == Len(arg) >= 3 /\ IsPrefix(arg, "--upload")

IsOption(arg) == IsPrefix("-", arg)

\* parser.parse_args() on the command lines of the runs: the positional
\* input_file, the flag; an error (exit) without exactly one positional or
\* with an option the parser does not know
RECURSIVE Positionals(_)
Positionals(args) ==
    IF Len(args) = 0 THEN <<>>
    ELSE (IF IsOption(args[1]) THEN <<>> ELSE <<args[1]>>) \o Positionals(Tail(args))

parse_args(command) ==
    LET args == Tail(command)
    IN  [ok |-> /\ Len(Positionals(args)) = 1
                /\ \A k \in 1..Len(args) : IsOption(args[k]) => IsUploadFlag(args[k]),
         input_file |-> IF Len(Positionals(args)) >= 1 THEN Positionals(args)[1] ELSE "",
         upload |-> \E k \in 1..Len(args) : IsUploadFlag(args[k])]

\* main() of new_upload.py down to the call of upload_properties, with none
\* of --translate, --limit, --sample, --output given
NewUploadMain ==
    /\ script = "new_upload.py"
    /\ main_pc = "start"
    /\ LET args == parse_args(argv)
       IN  IF args.ok /\ args.input_file \in ExistingFiles
           THEN /\ main_pc' = "upload"
                /\ dry_run' = ~args.upload
           ELSE /\ main_pc' = "exit"
                /\ UNCHANGED dry_run
    /\ UNCHANGED <<script, argv, candidates, main_i, processed_properties, upserts,
                   upload_summary,
                   cls_vars, dd_vars, geo_vars, fn_vars>>

\* the keys prepare_for_upload reads with prop[...]
PreparedKeys == {"id", "title", "price"}

\* faulty variant: the dry-run branch is lost
RECURSIVE upload_properties_always(_, _, _, _, _)
upload_properties_always(props, dry, credentials, failing, k) ==
    IF ~credentials \/ k > Len(props) THEN <<>>
    ELSE (IF PreparedKeys \subseteq DOMAIN props[k]
          THEN <<[listing |-> k, id |-> props[k].id, ok |-> k \notin failing]>>
          ELSE <<>>)
         \o upload_properties_always(props, dry, credentials, failing, k + 1)

\* upload_properties(properties, dry_run) from position k on: the upserts
\* sent, the store refusing those of the positions in failing.  A dry run
\* only counts; without the credentials the function returns before its
\* loop; a listing prepare_for_upload raises on is counted as an error and
\* skipped, and so is a refused upsert.
RECURSIVE upload_properties(_, _, _, _, _)
upload_properties(props, dry, credentials, failing, k) ==
    IF dry \/ ~credentials \/ k > Len(props) THEN <<>>
    ELSE (IF PreparedKeys \subseteq DOMAIN props[k]
          THEN <<[listing |-> k, id |-> props[k].id, ok |-> k \notin failing]>>
          ELSE <<>>)
         \o upload_properties(props, dry, credentials, failing, k + 1)

\* `result = upload_properties(properties, dry_run=not args.upload)`
UploadProperties(credentials, failing) ==
    /\ script = "new_upload.py"
    /\ main_pc = "upload"
    /\ failing \subseteq 1..Len(candidates)
    /\ upserts' = upserts \o upload_properties(candidates, dry_run, credentials, failing, 1)
    /\ main_pc' = "done"
    /\ UNCHANGED <<script, argv, candidates, main_i, processed_properties, dry_run,
                   upload_summary, cls_vars, dd_vars, geo_vars, fn_vars>>

(***************************************************************************)
(* Specifications                                                          *)
(***************************************************************************)
NextClassify == Classify

\* two listings are handed to the classifier
InitClassify ==
    /\ prop1 \in Listings(BaseFields)
    /\ prop2 \in Listings(BaseFields)
    /\ cls_pc = "call"
    /\ cls_ret = FALSE
    /\ properties = <<>>
    /\ dd_i = 1
    /\ unique_properties = <<>>
    /\ duplicates_found = 0
    /\ dup_log = <<>>
    /\ dd_pc = "idle"
    /\ geocode_cache = <<>>
    /\ geo_pc = "idle"
    /\ title = ""
    /\ location = ""
    /\ unique_queries = <<>>
    /\ qi = 1
    /\ attempt = 0
    /\ geo_ret = None
    /\ lookups = 0
    /\ sent = NothingSent
    /\ sleeps = <<>>
    /\ last_answer = [kind |-> "nothing"]
    /\ completed = <<>>
    /\ translated = 0
    /\ fn_title = ""
    /\ fn_location = ""
    /\ fn_pc = "idle"
    /\ fn_ret = [fn |-> "none"]
    /\ script = ""
    /\ argv = <<>>
    /\ candidates = <<>>
    /\ main_pc = "idle"
    /\ main_i = 1
    /\ processed_properties = <<>>
    /\ dry_run = TRUE
    /\ upserts = <<>>
    /\ upload_summary = NoUpload

SpecClassify == InitClassify /\ [][NextClassify]_vars

NextDedup == DedupStep \/ DedupReturn

\* a list of processed listings is handed to the pass
InitDedup ==
    /\ prop1 = [price |-> 0]
    /\ prop2 = [price |-> 0]
    /\ cls_pc = "idle"
    /\ cls_ret = FALSE
    /\ properties \in UNION {[1..n -> DedupListings] : n \in 0..MaxProperties}
    /\ dd_i = 1
    /\ unique_properties = <<>>
    /\ duplicates_found = 0
    /\ dup_log = <<>>
    /\ dd_pc = "loop"
    /\ geocode_cache = <<>>
    /\ geo_pc = "idle"
    /\ title = ""
    /\ location = ""
    /\ unique_queries = <<>>
    /\ qi = 1
    /\ attempt = 0
    /\ geo_ret = None
    /\ lookups = 0
    /\ sent = NothingSent
    /\ sleeps = <<>>
    /\ last_answer = [kind |-> "nothing"]
    /\ completed = <<>>
    /\ translated = 0
    /\ fn_title = ""
    /\ fn_location = ""
    /\ fn_pc = "idle"
    /\ fn_ret = [fn |-> "none"]
    /\ script = ""
    /\ argv = <<>>
    /\ candidates = <<>>
    /\ main_pc = "idle"
    /\ main_i = 1
    /\ processed_properties = <<>>
    /\ dry_run = TRUE
    /\ upserts = <<>>
    /\ upload_summary = NoUpload

SpecDedup == InitDedup /\ [][NextDedup]_vars

NextGeo ==
    \/ \E p \in GeoCandidates : GetCoordinates(p[1], p[2])
    \/ \E coords \in GeocodeResults : GeocodeFound(coords)
    \/ GeocodeNoResult
    \/ \E message \in ErrorMessages : GeocodeRateLimited(message)
    \/ \E message \in ErrorMessages : GeocodeError(message)
    \/ \E n \in TranslationCounts : TranslateProperty(n)

\* the start of a run: the cache is empty, no call was made
InitGeo ==
    /\ prop1 = [price |-> 0]
    /\ prop2 = [price |-> 0]
    /\ cls_pc = "idle"
    /\ cls_ret = FALSE
    /\ properties = <<>>
    /\ dd_i = 1
    /\ unique_properties = <<>>
    /\ duplicates_found = 0
    /\ dup_log = <<>>
    /\ dd_pc = "idle"
    /\ geocode_cache = <<>>
    /\ geo_pc = "idle"
    /\ title = ""
    /\ location = ""
    /\ unique_queries = <<>>
    /\ qi = 1
    /\ attempt = 0
    /\ geo_ret = None
    /\ lookups = 0
    /\ sent = NothingSent
    /\ sleeps = <<>>
    /\ last_answer = [kind |-> "nothing"]
    /\ completed = <<>>
    /\ translated = 0
    /\ fn_title = ""
    /\ fn_location = ""
    /\ fn_pc = "idle"
    /\ fn_ret = [fn |-> "none"]
    /\ script = ""
    /\ argv = <<>>
    /\ candidates = <<>>
    /\ main_pc = "idle"
    /\ main_i = 1
    /\ processed_properties = <<>>
    /\ dry_run = TRUE
    /\ upserts = <<>>
    /\ upload_summary = NoUpload

SpecGeo == InitGeo /\ [][NextGeo]_vars

\* geolocator.geocode(query, timeout=10) returns or raises
LookupReturns ==
    \/ \E coords \in GeocodeResults : GeocodeFound(coords)
    \/ GeocodeNoResult
    \/ \E message \in ErrorMessages : GeocodeRateLimited(message)
    \/ \E message \in ErrorMessages : GeocodeError(message)

\* the run with every lookup under way answered and every sleep ended: the
\* lookup has a timeout of 10 s, the sleeps are finite
SpecGeoFair == SpecGeo /\ WF_vars(LookupReturns)

NextText == NormalizeLocation \/ ExtractMunicipalityAndArea \/ BuildSearchQueries

\* a title and a location are handed to one of the text functions
InitText ==
    /\ prop1 = [price |-> 0]
    /\ prop2 = [price |-> 0]
    /\ cls_pc = "idle"
    /\ cls_ret = FALSE
    /\ properties = <<>>
    /\ dd_i = 1
    /\ unique_properties = <<>>
    /\ duplicates_found = 0
    /\ dup_log = <<>>
    /\ dd_pc = "idle"
    /\ geocode_cache = <<>>
    /\ geo_pc = "idle"
    /\ title = ""
    /\ location = ""
    /\ unique_queries = <<>>
    /\ qi = 1
    /\ attempt = 0
    /\ geo_ret = None
    /\ lookups = 0
    /\ sent = NothingSent
    /\ sleeps = <<>>
    /\ last_answer = [kind |-> "nothing"]
    /\ completed = <<>>
    /\ translated = 0
    /\ fn_title \in FnTitles
    /\ fn_location \in FnLocations
    /\ fn_pc = "call"
    /\ fn_ret = [fn |-> "none"]
    /\ script = ""
    /\ argv = <<>>
    /\ candidates = <<>>
    /\ main_pc = "idle"
    /\ main_i = 1
    /\ processed_properties = <<>>
    /\ dry_run = TRUE
    /\ upserts = <<>>
    /\ upload_summary = NoUpload

SpecText == InitText /\ [][NextText]_vars

NextMain ==
    \/ MainStart
    \/ \E coords \in GeocodeResults \cup {None}, translator_works \in BOOLEAN :
          ProcessStep(coords, translator_works)
    \/ MainDeduplicate
    \/ DedupStep
    \/ DedupReturn
    \/ \E credentials \in BOOLEAN, failing \in SUBSET (1..MaxCandidates) :
          UploadToSupabase(credentials, failing)
    \/ NewUploadMain
    \/ \E credentials \in BOOLEAN, failing \in SUBSET (1..MaxCandidates) :
          UploadProperties(credentials, failing)

\* a script is started on a command line; the input file holds candidates
InitMain ==
    /\ prop1 = [price |-> 0]
    /\ prop2 = [price |-> 0]
    /\ cls_pc = "idle"
    /\ cls_ret = FALSE
    /\ properties = <<>>
    /\ dd_i = 1
    /\ unique_properties = <<>>
    /\ duplicates_found = 0
    /\ dup_log = <<>>
    /\ dd_pc = "idle"
    /\ geocode_cache = <<>>
    /\ geo_pc = "idle"
    /\ title = ""
    /\ location = ""
    /\ unique_queries = <<>>
    /\ qi = 1
    /\ attempt = 0
    /\ geo_ret = None
    /\ lookups = 0
    /\ sent = NothingSent
    /\ sleeps = <<>>
    /\ last_answer = [kind |-> "nothing"]
    /\ completed = <<>>
    /\ translated = 0
    /\ fn_title = ""
    /\ fn_location = ""
    /\ fn_pc = "idle"
    /\ fn_ret = [fn |-> "none"]
    /\ script \in Scripts
    /\ argv \in CommandLines(script)
    /\ candidates \in UNION {[1..n -> MainListings] : n \in 0..MaxCandidates}
    /\ main_pc = "start"
    /\ main_i = 1
    /\ processed_properties = <<>>
    /\ dry_run = TRUE
    /\ upserts = <<>>
    /\ upload_summary = NoUpload

SpecMain == InitMain /\ [][NextMain]_vars

(***************************************************************************)
(* Claims about are_properties_duplicate (SpecClassify)                    *)
(***************************************************************************)
Returned == cls_pc = "ret"

\* the listing carries a non-empty source_reference
HasReference(p) == "source_reference" \in DOMAIN p /\ p.source_reference # ""

\* both listings carry a reference, equal once surrounding whitespace is
\* trimmed, and not blank
SameReference(p1, p2) ==
    /\ HasReference(p1) /\ HasReference(p2)
    /\ Strip(p1.source_reference) = Strip(p2.source_reference)
    /\ Strip(p1.source_reference) # ""

HasCoordinates(p) == "coordinates" \in DOMAIN p /\ p.coordinates # None

\* both listings have coordinates less than 5 m apart
Within5m(p1, p2) ==
    /\ HasCoordinates(p1) /\ HasCoordinates(p2)
    /\ Abs(p1.coordinates[1] - p2.coordinates[1]) < 5
    /\ p1.coordinates[2] = p2.coordinates[2]

\* C1 as stated: two listings with equal non-empty source_reference are
\* classified duplicate, whatever their other fields.
C1_EqualNonEmptyReference ==
    (/\ Returned
     /\ HasReference(prop1) /\ HasReference(prop2)
     /\ prop1.source_reference = prop2.source_reference)
    => cls_ret = TRUE

\* C1 amended: two listings with equal source_reference that is not empty
\* and not only whitespace are classified duplicate, whatever their other
\* fields.
C1_EqualNonBlankReference ==
    (/\ Returned
     /\ HasReference(prop1) /\ HasReference(prop2)
     /\ prop1.source_reference = prop2.source_reference
     /\ \E k \in 1..Len(prop1.source_reference) :
            SubSeq(prop1.source_reference, k, k) \notin Whitespace)
    => cls_ret = TRUE

C1_Witness ==
    /\ Returned
    /\ HasReference(prop1) /\ HasReference(prop2)
    /\ prop1.source_reference = "A" /\ prop2.source_reference = "A"
    /\ ~HasCoordinates(prop1) /\ HasCoordinates(prop2)
    /\ prop1.price # prop2.price
    /\ prop1.type # prop2.type
    /\ prop1.title # prop2.title
    /\ cls_ret = TRUE

\* C2 as stated: two listings with coordinates less than 5 m apart, equal
\* prices and equal types are classified duplicate, for every price >= 0.
C2_StrictGeoAnyPrice ==
    (/\ Returned
     /\ Within5m(prop1, prop2)
     /\ prop1.price = prop2.price
     /\ prop1.type = prop2.type)
    => cls_ret = TRUE

\* C2 amended: two listings with coordinates less than 5 m apart, equal
\* prices greater than zero and equal types are classified duplicate.
C2_StrictGeoPositivePrice ==
    (/\ Returned
     /\ Within5m(prop1, prop2)
     /\ prop1.price = prop2.price
     /\ prop1.price > 0
     /\ prop1.type = prop2.type)
    => cls_ret = TRUE

C2_Witness ==
    /\ Returned
    /\ HasReference(prop1) /\ HasReference(prop2)
    /\ ~SameReference(prop1, prop2)
    /\ HasCoordinates(prop1) /\ HasCoordinates(prop2)
    /\ prop1.coordinates = <<0, 0>> /\ prop2.coordinates = <<3, 0>>
    /\ prop1.price = 320000 /\ prop2.price = 320000
    /\ prop1.type = "house" /\ prop2.type = "house"
    /\ cls_ret = TRUE

\* C3: with no matching references, a pair in which a listing has no
\* coordinates, or whose coordinates are more than 5 m apart, is never
\* classified duplicate.
C3_GeoTierNeverFiresBeyondThreshold ==
    (/\ Returned
     /\ ~SameReference(prop1, prop2)
     /\ \/ ~HasCoordinates(prop1)
        \/ ~HasCoordinates(prop2)
        \/ Abs(prop1.coordinates[1] - prop2.coordinates[1]) > 5)
    => cls_ret = FALSE

C3_Witness ==
    /\ Returned
    /\ ~HasReference(prop1) /\ ~HasReference(prop2)
    /\ HasCoordinates(prop1) /\ HasCoordinates(prop2)
    /\ prop1.coordinates = <<0, 0>> /\ prop2.coordinates = <<8, 0>>
    /\ prop1.price = 320000 /\ prop2.price = 320000
    /\ prop1.type = prop2.type
    /\ cls_ret = FALSE

\* the pair is matched by neither the reference rule nor the geospatial rule
NoStrictMatch(p1, p2) ==
    /\ ~SameReference(p1, p2)
    /\ ~(/\ Within5m(p1, p2)
         /\ p1.price = p2.price /\ p1.price > 0
         /\ p1.type = p2.type)

\* C4 as stated: a pair matched by neither strict rule, with equal normalized
\* locations, is classified duplicate when the normalized titles and the
\* prices are equal, or when the title word overlap exceeds 0.8 and the
\* prices differ by at most 5%.
C4_TextPriceTierFires ==
    (/\ Returned
     /\ NoStrictMatch(prop1, prop2)
     /\ TextPriceMatch(prop1, prop2))
    => cls_ret = TRUE

\* C4 amended: a pair matched by neither strict rule is classified not
\* duplicate even when its normalized locations are equal and its titles and
\* prices are equal or close: the classifier has no text/price tier.
C4_NoTextPriceTier ==
    (/\ Returned
     /\ NoStrictMatch(prop1, prop2)
     /\ TextPriceMatch(prop1, prop2))
    => cls_ret = FALSE

C4_Witness ==
    /\ Returned
    /\ NoStrictMatch(prop1, prop2)
    /\ prop1.location = "Xabia" /\ prop2.location = "Javea"
    /\ prop1.title = "Villa Puerto" /\ prop2.title = "Port Villa"
    /\ prop1.price = 320000 /\ prop2.price = 320001
    /\ TextPriceMatch(prop1, prop2)
    /\ cls_ret = FALSE

(***************************************************************************)
(* Claims about deduplicate_properties (SpecDedup)                         *)
(***************************************************************************)
Range(f) == {f[k] : k \in DOMAIN f}

\* the candidate under examination matches a listing accepted so far
CandidateIsDuplicate ==
    /\ dd_pc = "loop"
    /\ dd_i <= Len(properties)
    /\ \E k \in 1..Len(unique_properties) :
          are_properties_duplicate(properties[dd_i], properties[unique_properties[k]])

\* C5: during a pass the accepted list only grows, at its end: what it holds
\* is never removed or replaced, and a candidate classified duplicate is not
\* appended.
C5_AcceptedSetOnlyGrows ==
    [][/\ Len(unique_properties') >= Len(unique_properties)
       /\ SubSeq(unique_properties', 1, Len(unique_properties)) = unique_properties
       /\ CandidateIsDuplicate => unique_properties' = unique_properties]_vars

C5_Witness ==
    /\ dd_pc = "done"
    /\ Len(unique_properties) = 2
    /\ duplicates_found = 1
    /\ dup_log = <<<<2, 1>>>>

\* C6: when the pass has ended every input candidate is either accepted or
\* was discarded, once, as the duplicate of a listing accepted before it, and
\* accepted + duplicates = candidates.
C6_AcceptedPlusDuplicatesIsInput ==
    dd_pc = "done" =>
        /\ Len(unique_properties) + duplicates_found = Len(properties)
        /\ Len(dup_log) = duplicates_found
        /\ \A i \in 1..Len(properties) :
              LET logged == {k \in 1..Len(dup_log) : dup_log[k][1] = i}
              IN  IF i \in Range(unique_properties)
                  THEN logged = {}
                  ELSE /\ Cardinality(logged) = 1
                       /\ \A k \in logged :
                             /\ dup_log[k][2] \in Range(unique_properties)
                             /\ dup_log[k][2] < i
                             /\ are_properties_duplicate(properties[i],
                                                         properties[dup_log[k][2]])

C6_Witness ==
    /\ dd_pc = "done"
    /\ Len(properties) = 2
    /\ "source_reference" \in DOMAIN properties[1]
    /\ "source_reference" \in DOMAIN properties[2]
    /\ properties[1].source_reference = "A"
    /\ properties[2].source_reference = "A"
    /\ Len(unique_properties) = 1
    /\ duplicates_found = 1

(***************************************************************************)
(* Claims about get_coordinates (SpecGeo)                                  *)
(***************************************************************************)
\* completed calls i and j, i the earlier, had identical (title, location)
SamePair(i, j) ==
    /\ i < j
    /\ completed[i].title = completed[j].title
    /\ completed[i].location = completed[j].location

\* i and j are the first two calls made with their (title, location)
FirstTwoCalls(i, j) ==
    /\ SamePair(i, j)
    /\ \A k \in 1..(j - 1) : k # i => ~SamePair(k, j)

\* this step issues an external lookup
LookupStep == lookups' = lookups + 1

\* an earlier call with the arguments of the call in progress returned ret
EarlierCallReturned(ret) ==
    \E i \in 1..Len(completed) :
        /\ completed[i].title = title
        /\ completed[i].location = location
        /\ completed[i].ret = ret

PositionOf(query) ==
    IF \E k \in 1..Len(unique_queries) : unique_queries[k] = query
    THEN CHOOSE k \in 1..Len(unique_queries) : unique_queries[k] = query
    ELSE 0

\* C7 as stated: the first two calls with identical (title, location) issue
\* exactly one external lookup between them, whatever the lookup answers.
C7_TwoCallsOneLookup ==
    \A i, j \in 1..Len(completed) :
        FirstTwoCalls(i, j) => completed[i].lookups + completed[j].lookups = 1

\* C7 amended: when the first of two calls with identical (title, location)
\* returns coordinates, the second call issues no external lookup and
\* returns the same coordinates; the two calls issue exactly one lookup
\* between them when the first lookup of the first call returned a result.
C7_CacheHitAvoidsSecondLookup ==
    \A i, j \in 1..Len(completed) :
        (FirstTwoCalls(i, j) /\ completed[i].ret # None) =>
            /\ completed[j].lookups = 0
            /\ completed[j].ret = completed[i].ret
            /\ completed[i].lookups >= 1
            /\ completed[i].lookups = 1 =>
                  completed[i].lookups + completed[j].lookups = 1

C7_Witness ==
    /\ Len(completed) = 2
    /\ FirstTwoCalls(1, 2)
    /\ completed[1].title = "Villa Port"
    /\ completed[1].ret = <<3, 0>>
    /\ completed[1].lookups = 1
    /\ completed[2].lookups = 0
    /\ completed[2].ret = <<3, 0>>

\* C8 as stated: once a call with some (title, location) has completed,
\* whatever it returned, no external lookup is ever issued again for that
\* (title, location).
C8_NoLookupAfterCompletion ==
    [][LookupStep => ~(EarlierCallReturned(None)
                       \/ \E coords \in GeocodeResults : EarlierCallReturned(coords))]_vars

\* C8 amended: once a call with some (title, location) has returned
\* coordinates, no external lookup is ever issued again for that (title,
\* location); after a call that returned none the queries are sent again.
C8_NoLookupAfterCoordinates ==
    [][LookupStep => ~(\E coords \in GeocodeResults : EarlierCallReturned(coords))]_vars

C8_Witness ==
    /\ Len(completed) = 2
    /\ SamePair(1, 2)
    /\ completed[1].title = "Villa"
    /\ completed[1].ret # None
    /\ completed[1].lookups > 1
    /\ completed[2].lookups = 0
    /\ geo_pc = "idle"

\* C9: the lookups of a call go through the query list in order, none
\* skipped, starting with the first; the lookup that returns a result ends
\* the call, which returns that result; no lookup follows it in the call.
C9_StopsAtFirstResult ==
    [][LookupStep =>
         /\ PositionOf(sent'.query) >= 1
         /\ sent.query = "" => PositionOf(sent'.query) = 1
         /\ sent.query # "" =>
               PositionOf(sent'.query) \in {PositionOf(sent.query), PositionOf(sent.query) + 1}
         /\ lookups > 0 => last_answer.kind # "found"
         /\ last_answer'.kind = "found" =>
               /\ geo_pc' = "idle"
               /\ geo_ret' = last_answer'.coords
               /\ Len(completed') = Len(completed) + 1
               /\ completed'[Len(completed')].ret = last_answer'.coords
               /\ completed'[Len(completed')].lookups = lookups']_vars

C9_Witness ==
    /\ Len(completed) = 1
    /\ completed[1].title = "Villa"
    /\ completed[1].lookups = 3
    /\ completed[1].ret = <<3, 0>>
    /\ geo_ret = <<3, 0>>
    /\ sent = [query |-> "arenal, Alicante, Valencia, Spain", tries |-> 1]
    /\ last_answer = [kind |-> "found", coords |-> <<3, 0>>]
    /\ geo_pc = "idle"

\* the lookup answered with the rate-limit error
RateLimited(answer) ==
    answer.kind = "error" /\ answer.message = "Non-successful status code 503"

\* C10: a query answered with consecutive rate-limit errors is sent at most
\* 3 times; the waits after the failures are 2 s, 4 s and 8 s; after a first
\* or second failure the same query is sent again, after the third the call
\* goes on with the next query of the list (and returns none when there is
\* no next query) instead of being aborted.
C10_Backoff ==
    [][LookupStep =>
         /\ sent'.tries <= 3
         /\ RateLimited(last_answer') =>
               /\ Len(sleeps') >= 1
               /\ sleeps'[1] = 20 * (2 ^ (sent'.tries - 1))
               /\ sent'.tries < 3 => geo_pc' = "loop" /\ Len(sleeps') = 1
               /\ sent'.tries = 3 =>
                     IF PositionOf(sent'.query) < Len(unique_queries)
                     THEN geo_pc' = "loop" /\ Len(completed') = Len(completed)
                     ELSE geo_pc' = "idle" /\ geo_ret' = None
         /\ (lookups > 0 /\ RateLimited(last_answer)) =>
               IF sent.tries < 3
               THEN sent' = [query |-> sent.query, tries |-> sent.tries + 1]
               ELSE /\ PositionOf(sent'.query) = PositionOf(sent.query) + 1
                    /\ sent'.tries = 1]_vars

C10_Witness ==
    /\ geo_pc = "loop"
    /\ title = "Villa"
    /\ sent = [query |-> "arenal, Javea, Alicante, Spain", tries |-> 3]
    /\ RateLimited(last_answer)
    /\ lookups = 3
    /\ sleeps = <<80, 12>>
    /\ qi = 2
    /\ attempt = 0

RECURSIVE Sum(_)
Sum(seq) == IF Len(seq) = 0 THEN 0 ELSE seq[1] + Sum(Tail(seq))

\* a lookup was issued earlier in the run
LookedUpBefore == last_answer.kind # "nothing"

\* C11: whenever an external lookup is issued after an earlier one of the
\* run, in the same call or in an earlier call, at least 1.2 s were slept
\* since that earlier lookup, whatever it answered.
C11_MinimumDelayBetweenLookups ==
    [][(LookupStep /\ LookedUpBefore) => Sum(sleeps) >= QueryDelay]_vars

\* C12: a call of get_coordinates is either in its query loop, at a query of
\* its list and within the attempts of that query, or has returned; it never
\* ends otherwise.  Every completed call returned coordinates or none, and
\* a call that returned none had sent every query of its list, each at most
\* max_retries times, whatever the lookups answered (nothing found, a
\* rate-limit error, any other error) and whatever the title and location.
C12_ReturnsCoordinatesOrNone ==
    /\ geo_pc \in {"idle", "loop"}
    /\ geo_pc = "loop" =>
          /\ qi \in 1..Len(unique_queries)
          /\ attempt \in 0..(max_retries - 1)
          /\ lookups <= max_retries * (qi - 1) + attempt
          /\ lookups >= qi - 1
    /\ \A i \in 1..Len(completed) :
          /\ completed[i].ret \in GeocodeResults \cup {None}
          /\ completed[i].ret = None =>
                LET n == Len(Queries(completed[i].title, completed[i].location))
                IN  completed[i].lookups \in n..(max_retries * n)

C12_Witness ==
    /\ Len(completed) = 2
    /\ completed[1] = CallRecord("Villa", "Xabia, Arenal", None, 7)
    /\ completed[2] = CallRecord("", "", None, 0)
    /\ last_answer = [kind |-> "error", message |-> "Service timed out"]
    /\ geo_pc = "idle"

\* queries that name no place below the town
BareQueries ==
    {"Javea, Alicante, Spain", "Javea, Spain", "Alicante, Valencia, Spain",
     "Alicante, Spain", "Valencia, Spain", "Spain"}

\* the endings the queries are built with
QuerySuffixes ==
    {", Javea, Alicante, Spain", ", Javea, Spain", ", Alicante, Valencia, Spain",
     ", Valencia, Spain"}

EndsWith(s, suffix) ==
    Len(s) >= Len(suffix) /\ SubSeq(s, Len(s) - Len(suffix) + 1, Len(s)) = suffix

\* every query of every candidate of the run is a place name followed by
\* one of the endings, and a candidate has no query exactly when its title
\* holds no known keyword and its location field is empty once cleaned
QueriesNameAPlace ==
    \A p \in GeoCandidates :
        /\ \A k \in 1..Len(Queries(p[1], p[2])) :
              /\ Queries(p[1], p[2])[k] \notin BareQueries
              /\ \E suffix \in QuerySuffixes :
                    /\ EndsWith(Queries(p[1], p[2])[k], suffix)
                    /\ Len(Queries(p[1], p[2])[k]) > Len(suffix)
        /\ (Len(Queries(p[1], p[2])) = 0) <=>
              /\ Len(extract_location_from_title(p[1])) = 0
              /\ strip_javea_from_location(p[2]) = ""

\* C18 as stated: the query list of every call ends with a bare
\* province/region/country query, and a call that returns none has issued
\* at least one external lookup.
C18_AnchorQueryAlwaysTried ==
    \A i \in 1..Len(completed) :
        LET queries == Queries(completed[i].title, completed[i].location)
        IN  /\ Len(queries) >= 1
            /\ queries[Len(queries)] \in BareQueries
            /\ completed[i].ret = None => completed[i].lookups >= 1

\* C18 amended: no query of the list is a bare province/region/country
\* query, each names a title keyword or the cleaned location field; when
\* the title holds no known keyword and the cleaned location field is empty
\* the list is empty and the call returns none without any external
\* lookup; for every other input a call that returns none has issued at
\* least one lookup.
C18_NoAnchorQuery ==
    /\ QueriesNameAPlace
    /\ \A i \in 1..Len(completed) :
          LET queries == Queries(completed[i].title, completed[i].location)
          IN  /\ Len(queries) = 0 => completed[i].ret = None /\ completed[i].lookups = 0
              /\ (Len(queries) > 0 /\ completed[i].ret = None) => completed[i].lookups >= 1

C18_Witness ==
    /\ Len(completed) = 2
    /\ completed[1] = CallRecord("", "", None, 0)
    /\ completed[2] = CallRecord("Villa Port", "", None, 2)

\* the lookup answered with an error that is not a rate-limit signal
Permanent(answer) ==
    answer.kind = "error" /\ answer.message \notin RateLimitMessages

\* C19: a lookup answered with an error that is not a rate-limit signal is
\* followed by the fixed delay only, with no backoff wait; the call then
\* stands at the next query of the list with its attempts at zero, or
\* returns none when there is no next query; the next lookup of the call,
\* if any, sends that next query for the first time.
C19_PermanentErrorAbandonsQuery ==
    [][LookupStep =>
         /\ Permanent(last_answer') =>
               /\ sleeps' = <<QueryDelay>>
               /\ IF PositionOf(sent'.query) < Len(unique_queries)
                  THEN /\ geo_pc' = "loop"
                       /\ qi' = PositionOf(sent'.query) + 1
                       /\ attempt' = 0
                       /\ Len(completed') = Len(completed)
                  ELSE /\ geo_pc' = "idle"
                       /\ geo_ret' = None
         /\ (lookups > 0 /\ Permanent(last_answer)) =>
               /\ PositionOf(sent'.query) = PositionOf(sent.query) + 1
               /\ sent'.tries = 1]_vars

\* a 400 answer to the second attempt of the first query, then the second
\* query is sent
C19_Witness ==
    /\ title = "Villa"
    /\ geo_pc = "loop"
    /\ lookups = 3
    /\ sent = [query |-> "arenal, Javea, Spain", tries |-> 1]
    /\ last_answer = [kind |-> "error", message |-> "Non-successful status code 400"]
    /\ qi = 3
    /\ sleeps = <<QueryDelay>>

\* the lookup timed out
TimedOut(answer) ==
    answer.kind = "error" /\ answer.message = "Service timed out"

\* C20 as stated: a lookup that times out before the last attempt is
\* followed by a backoff wait and the same query is sent again.
C20_TimeoutRetried ==
    [][LookupStep =>
         /\ (TimedOut(last_answer') /\ sent'.tries < max_retries) =>
               /\ sleeps' = <<20 * (2 ^ (sent'.tries - 1))>>
               /\ geo_pc' = "loop"
               /\ qi' = qi
         /\ (lookups > 0 /\ TimedOut(last_answer) /\ sent.tries < max_retries) =>
               sent' = [query |-> sent.query, tries |-> sent.tries + 1]]_vars

\* C20 amended: a lookup that times out is never sent again by the call:
\* only the fixed delay follows it, and the call goes to the next query of
\* the list, or returns none when there is none.
C20_TimeoutNotRetried ==
    [][LookupStep =>
         /\ TimedOut(last_answer') =>
               /\ sleeps' = <<QueryDelay>>
               /\ qi' = qi + 1
               /\ attempt' = 0
               /\ geo_pc' = (IF qi < Len(unique_queries) THEN "loop" ELSE "idle")
               /\ geo_pc' = "idle" => geo_ret' = None
         /\ (lookups > 0 /\ TimedOut(last_answer)) => sent'.query # sent.query]_vars

\* the first query timed out once: the call stands at the second query
C20_Witness ==
    /\ title = "Villa Port"
    /\ geo_pc = "loop"
    /\ lookups = 1
    /\ sent = [query |-> "port, Javea, Alicante, Spain", tries |-> 1]
    /\ TimedOut(last_answer)
    /\ qi = 2
    /\ attempt = 0
    /\ sleeps = <<QueryDelay>>

(***************************************************************************)
(* Claims about the text functions (SpecText)                               *)
(***************************************************************************)
\* C13: normalize_location applied to its own result returns it unchanged.
C13_NormalizeIdempotent ==
    (fn_ret.fn = "normalize_location" /\ fn_ret.calls = 2) => fn_ret.ret = fn_ret.arg

\* the positions of the area_mappings keys found in a text
KeysFound(text) ==
    {k \in 1..Len(area_mappings) : Contains(text, area_mappings[k][1])}

\* C14: the municipality returned is always the default; no area is
\* returned exactly when no key of the table is a substring of the
\* normalized location; otherwise the area is the slug of the key that comes
\* first in the table among those found, wherever the keys stand in the
\* text and however long they are, and is a value of the table.
C14_FirstKeywordByTableOrder ==
    fn_ret.fn = "extract_municipality_and_area" =>
        LET found == KeysFound(normalize_location(fn_location))
        IN  /\ fn_ret.ret.municipality = "Javea"
            /\ (found = {}) <=> ("area" \notin DOMAIN fn_ret.ret)
            /\ found # {} =>
                  /\ fn_ret.ret.area =
                        area_mappings[CHOOSE k \in found : \A j \in found : k <= j][2]
                  /\ \E k \in 1..Len(area_mappings) : fn_ret.ret.area = area_mappings[k][2]

\* "port" stands first in the text and "arenal" first in the table
C14_Witness ==
    /\ fn_location = "portArenal"
    /\ fn_ret = [fn |-> "extract_municipality_and_area",
                 ret |-> [municipality |-> "Javea", area |-> "arenal"]]

\* the first position of query q in the list, 0 when it is not in it
FirstIndex(list, q) ==
    IF \E k \in 1..Len(list) : list[k] = q
    THEN CHOOSE k \in 1..Len(list) : list[k] = q /\ \A j \in 1..(k - 1) : list[j] # q
    ELSE 0

\* the queries a title keyword gives, the more general one last
KeywordQueries(keyword) ==
    <<normalize_location(keyword) \o ", Javea, Alicante, Spain",
      normalize_location(keyword) \o ", Javea, Spain">>

\* the queries the location field gives, the more general ones last
FieldQueries(field) ==
    IF field = "" THEN <<>>
    ELSE <<field \o ", Javea, Alicante, Spain", field \o ", Javea, Spain",
           field \o ", Alicante, Valencia, Spain", field \o ", Valencia, Spain">>

\* the queries of list, each once, are in list in the order of seq
InOrder(list, seq) ==
    \A a, b \in 1..Len(seq) :
        (a < b /\ seq[a] # seq[b]) =>
            /\ FirstIndex(list, seq[a]) >= 1
            /\ FirstIndex(list, seq[a]) < FirstIndex(list, seq[b])

\* C17: the issued list holds no query twice and holds exactly the queries
\* built; two queries stand in it in the order of their first occurrence in
\* the list as built; every query of a title keyword stands before every
\* query that only the location field gives; the queries of one keyword,
\* and those of the location field, stand from the narrower to the wider.
C17_QueriesOrderedAndUnique ==
    fn_ret.fn = "get_coordinates" =>
        LET issued   == fn_ret.unique_queries
            built    == fn_ret.search_queries
            keywords == extract_location_from_title(fn_title)
            field    == strip_javea_from_location(fn_location)
            ofTitle  == UNION {Range(KeywordQueries(keywords[k])) : k \in 1..Len(keywords)}
            ofField  == Range(FieldQueries(field))
        IN  /\ \A a, b \in 1..Len(issued) : a # b => issued[a] # issued[b]
            /\ Range(issued) = Range(built)
            /\ Range(issued) = ofTitle \cup ofField
            /\ InOrder(built, issued)
            /\ \A a, b \in 1..Len(issued) :
                  (issued[a] \in ofTitle /\ issued[b] \in ofField \ ofTitle) => a < b
            /\ \A k \in 1..Len(keywords) : InOrder(issued, KeywordQueries(keywords[k]))
            /\ InOrder(issued, FieldQueries(field))

\* two keywords in the title, the location field repeating the first
C17_Witness ==
    /\ fn_title = "Portichol Port"
    /\ fn_location = "portichol"
    /\ fn_ret.fn = "get_coordinates"
    /\ Len(fn_ret.search_queries) = 8
    /\ fn_ret.unique_queries =
          <<"portitxol, Javea, Alicante, Spain", "portitxol, Javea, Spain",
            "port, Javea, Alicante, Spain", "port, Javea, Spain",
            "portitxol, Alicante, Valencia, Spain", "portitxol, Valencia, Spain">>

(***************************************************************************)
(* Claims about main() (SpecMain)                                           *)
(***************************************************************************)
\* the loop of main() over the candidates has ended
ProcessingDone == main_pc \in {"dedup", "done", "aborted"}

\* processed listing p is candidate c, with every field c had (the title
\* apart, which the translation may replace)
SameListing(p, c) ==
    /\ DOMAIN c \subseteq DOMAIN p
    /\ \A f \in DOMAIN c \ {"title"} : p[f] = c[f]

\* C15: while main() of process_and_upload.py goes through the candidates
\* the processed list holds one entry for each candidate gone through, in
\* the order of the input; the entry of a candidate process_property raised
\* on is the candidate itself; the loop is never left before the last
\* candidate, so that the list handed on holds one entry per candidate.
C15_OneEntryPerCandidate ==
    script = "process_and_upload.py" =>
        /\ main_pc = "process" => Len(processed_properties) = main_i - 1
        /\ main_pc \in {"process", "dedup", "done", "aborted"} =>
              \A k \in 1..Len(processed_properties) :
                  /\ k <= Len(candidates)
                  /\ SameListing(processed_properties[k], candidates[k])
                  /\ ProcessRaises(candidates[k]) =>
                        processed_properties[k] = candidates[k]
        /\ ProcessingDone => /\ Len(processed_properties) = Len(candidates)
                             /\ main_i = Len(candidates) + 1

\* the first candidate has no id, the second was processed after it
C15_Witness ==
    /\ script = "process_and_upload.py"
    /\ main_pc = "dedup"
    /\ Len(candidates) = 2
    /\ ProcessRaises(candidates[1])
    /\ processed_properties[1] = candidates[1]
    /\ "id" \in DOMAIN candidates[2]
    /\ "municipality" \in DOMAIN processed_properties[2]
    /\ "title_en" \in DOMAIN processed_properties[2]

\* C16: in a run of new_upload.py whose upload_properties is called with
\* dry_run true, and in a run of process_and_upload.py whose command line
\* does not hold --upload, no upsert is ever sent to the store, whatever the
\* input list and whether or not the credentials are set.
C16_NoUpsertWithoutUploadFlag ==
    /\ (script = "new_upload.py" /\ dry_run) => upserts = <<>>
    /\ (script = "process_and_upload.py" /\ "--upload" \notin Range(argv)) =>
          upserts = <<>>

\* a run of process_and_upload.py without the flag has ended: two listings
\* were processed and kept, none was upserted
C16_Witness ==
    /\ script = "process_and_upload.py"
    /\ argv = <<"process_and_upload.py", "scraped.json">>
    /\ main_pc = "done"
    /\ dd_pc = "done"
    /\ Len(unique_properties) = 2
    /\ \A k \in 1..2 : RequiredKeys \subseteq DOMAIN properties[unique_properties[k]]
    /\ upserts = <<>>


(***************************************************************************)
(* Claims about the cache, the dedup pass and the upload (second part)     *)
(***************************************************************************)

\* some completed call with this key returned these coordinates
ReturnedFor(key, coords) ==
    \E i \in 1..Len(completed) :
        /\ cache_key(completed[i].title, completed[i].location) = key
        /\ completed[i].ret = coords

\* every entry of the cache is what a call with its key returned
CacheEntriesWereReturned ==
    \A key \in DOMAIN geocode_cache : ReturnedFor(key, geocode_cache[key])

\* no step overwrites or removes an entry
CacheEntriesKept ==
    \A key \in DOMAIN geocode_cache :
        /\ key \in DOMAIN geocode_cache'
        /\ geocode_cache'[key] = geocode_cache[key]

\* a step that completes a call with None, or from the cache (no lookup),
\* leaves the cache as it was
QuietReturnKeepsCache ==
    (/\ Len(completed') = Len(completed) + 1
     /\ \/ completed'[Len(completed')].ret = None
        \/ completed'[Len(completed')].lookups = 0)
    => geocode_cache' = geocode_cache

\* C21: geocode_cache holds an entry for a key only if a get_coordinates call
\* with that key returned coordinates, and the entry equals them; an entry is
\* never overwritten or removed; a call that returns None or hits the cache
\* leaves the cache unchanged.
C21_CacheInvariant ==
    /\ [] CacheEntriesWereReturned
    /\ [][CacheEntriesKept /\ QuietReturnKeepsCache]_vars

\* two calls are over: the first resolved its pair by a lookup, the second
\* was answered from the cache, and the cache holds the first call's entry only
C21_Witness ==
    /\ Len(completed) = 2
    /\ completed[1].ret # None
    /\ completed[1].lookups > 0
    /\ completed[2].lookups = 0
    /\ completed[2].ret = completed[1].ret
    /\ DOMAIN geocode_cache = {cache_key(completed[1].title, completed[1].location)}


\* the short generic keys of area_mappings, and its multi-word keys
GenericKeys == {"beach", "port"}

MultiWordKeys == {k \in 1..Len(area_mappings) : Contains(area_mappings[k][1], " ")}

\* C22: the generic keys 'beach' and 'port' are ordered after the multi-word
\* keys of area_mappings: for a location whose normalized text holds a
\* multi-word key and a generic key, extract_municipality_and_area returns
\* the slug of a multi-word key found.
C22_MultiWordKeyBeatsGeneric ==
    fn_ret.fn = "extract_municipality_and_area" =>
        LET found == KeysFound(normalize_location(fn_location))
        IN  (/\ found \cap MultiWordKeys # {}
             /\ \E g \in found : area_mappings[g][1] \in GenericKeys)
            => /\ "area" \in DOMAIN fn_ret.ret
               /\ \E m \in found \cap MultiWordKeys :
                      fn_ret.ret.area = area_mappings[m][2]


\* candidates i and j are duplicates of each other, in both argument orders
MutualDuplicates(i, j) ==
    /\ are_properties_duplicate(properties[i], properties[j])
    /\ are_properties_duplicate(properties[j], properties[i])

\* the groups of two or more mutually duplicate candidates that no further
\* candidate can join
DuplicateGroups ==
    {G \in SUBSET (1..Len(properties)) :
        /\ Cardinality(G) >= 2
        /\ \A i, j \in G : i # j => MutualDuplicates(i, j)
        /\ \A c \in (1..Len(properties)) \ G : \E i \in G : ~MutualDuplicates(i, c)}

Earliest(G) == CHOOSE i \in G : \A j \in G : i <= j

\* the accepted list is a subsequence of the input, and it starts with the
\* first candidate
AcceptedInInputOrder ==
    /\ \A k \in 1..Len(unique_properties) - 1 :
          unique_properties[k] < unique_properties[k + 1]
    /\ Len(properties) > 0 => (Len(unique_properties) > 0 /\ unique_properties[1] = 1)

\* a rejected candidate was rejected for the first accepted listing, in
\* insertion order, that it matches
RejectedAtFirstMatch ==
    \A k \in 1..Len(dup_log) :
        \A u \in Range(unique_properties) :
            (u < dup_log[k][1] /\ are_properties_duplicate(properties[dup_log[k][1]],
                                                          properties[u]))
            => dup_log[k][2] <= u

\* C23 as stated: the accepted list is an order-preserving subsequence of the
\* input, the first candidate is always accepted, and of a group of mutually
\* duplicate candidates the earliest in input order is the one kept.
C23_EarliestOfGroupKept ==
    dd_pc = "done" =>
        /\ AcceptedInInputOrder
        /\ RejectedAtFirstMatch
        /\ \A G \in DuplicateGroups : G \cap Range(unique_properties) = {Earliest(G)}

\* C23, amended: the accepted list is an order-preserving subsequence of the
\* input, the first candidate is always accepted, a rejected candidate was
\* matched with the first accepted listing that it duplicates, and of a group
\* of mutually duplicate candidates at most one is kept: the earliest, unless
\* the earliest was rejected as the duplicate of a listing accepted before it,
\* which is then outside the group.
C23_EarliestKeptUnlessRejectedFromOutside ==
    dd_pc = "done" =>
        /\ AcceptedInInputOrder
        /\ RejectedAtFirstMatch
        /\ \A G \in DuplicateGroups :
              \/ G \cap Range(unique_properties) = {Earliest(G)}
              \/ /\ Cardinality(G \cap Range(unique_properties)) <= 1
                 /\ Earliest(G) \notin Range(unique_properties)
                 /\ \E u \in Range(unique_properties) \ G :
                       /\ u < Earliest(G)
                       /\ are_properties_duplicate(properties[Earliest(G)], properties[u])

\* three candidates: the second is rejected for the first; the third and the
\* second are duplicates of each other, but the third does not match the
\* first and is kept (points 0 m, 3 m and 6 m apart, for instance)
C23_Witness ==
    /\ dd_pc = "done"
    /\ Len(properties) = 3
    /\ {2, 3} \in DuplicateGroups
    /\ unique_properties = <<1, 3>>
    /\ dup_log = <<<<2, 1>>>>


\* the dedup pass of a process_and_upload.py run has consumed the batch
DedupDone == script = "process_and_upload.py" /\ main_pc # "process" /\ dd_pc = "done"

\* translate_property was run on the listing at position i of the batch: it
\* alone sets title_en
SentToTranslation(i) == "title_en" \in DOMAIN properties[i]

\* C24: only listings of the accepted partition are sent to the translation
\* provider; a candidate the dedup pass rejects is never translated in that
\* run.
C24_OnlyAcceptedTranslated ==
    DedupDone =>
        \A i \in 1..Len(properties) :
            SentToTranslation(i) => i \in Range(unique_properties)


\* the batch positions of the listings an upsert was sent for
Upserted == {upserts[k].listing : k \in 1..Len(upserts)}

\* the batch positions of the candidates the dedup pass rejected
Rejected == {dup_log[k][1] : k \in 1..Len(dup_log)}

\* C25: in a run of process_and_upload.py an upsert is sent only after the
\* dedup pass has consumed every candidate of the batch, and only for
\* listings of the final accepted list; a rejected duplicate is never
\* upserted.
C25_UpsertsOnlyForAcceptedAfterDedup ==
    /\ [](script = "process_and_upload.py" =>
             /\ Upserted \subseteq Range(unique_properties)
             /\ Upserted \cap Rejected = {}
             /\ upserts # <<>> => DedupDone)
    /\ [][(script = "process_and_upload.py" /\ upserts' # upserts) =>
             /\ dd_pc = "done"
             /\ dd_i = Len(properties) + 1
             /\ Len(properties) = Len(candidates)
             /\ unique_properties' = unique_properties
             /\ Len(unique_properties) + Cardinality(Rejected) = Len(candidates)]_vars

\* a batch of two, the second rejected as a duplicate of the first: one
\* upsert was sent, for the first
C25_Witness ==
    /\ script = "process_and_upload.py"
    /\ Len(candidates) = 2
    /\ unique_properties = <<1>>
    /\ Rejected = {2}
    /\ Len(upserts) = 1
    /\ upserts[1].listing = 1


\* candidates k and j of the input file carry the same (title, location)
SamePlace(k, j) ==
    /\ Get(candidates[k], "title", "") = Get(candidates[j], "title", "")
    /\ Get(candidates[k], "location", "") = Get(candidates[j], "location", "")

\* the step processes a candidate whose get_coordinates call finds its key
\* in the cache
CacheHitStep ==
    /\ script = "process_and_upload.py"
    /\ main_pc = "process"
    /\ main_i' = main_i + 1
    /\ ~ProcessRaises(candidates[main_i])
    /\ cache_key(Get(candidates[main_i], "title", ""),
                 Get(candidates[main_i], "location", "")) \in DOMAIN geocode_cache

\* C26: a cache hit happens only for a (title, location) pair identical to
\* one resolved earlier in the run; no candidate receives the coordinates
\* resolved for a different pair.
C26_CacheHitOnlyForSamePair ==
    [][CacheHitStep =>
          \E k \in 1..main_i - 1 :
              /\ SamePlace(k, main_i)
              /\ "coordinates" \in DOMAIN processed_properties[k]
              /\ processed_properties'[main_i].coordinates =
                     processed_properties[k].coordinates]_vars


\* the list the pass returned
Output == [k \in 1..Len(unique_properties) |-> properties[unique_properties[k]]]

\* C27: when deduplicate_properties has returned, no two distinct listings
\* of its output are duplicates of each other, in either argument order, and
\* a second pass over the output returns all of it.
C27_OutputHoldsNoDuplicates ==
    dd_pc = "done" =>
        /\ \A a, b \in 1..Len(Output) :
              a # b => ~are_properties_duplicate(Output[a], Output[b])
        /\ deduplicate_properties(Output, 1, <<>>) = [k \in 1..Len(Output) |-> k]

\* three candidates, one of them rejected, two kept
C27_Witness ==
    /\ dd_pc = "done"
    /\ Len(properties) = 3
    /\ duplicates_found = 1
    /\ Len(unique_properties) = 2
    /\ deduplicate_properties(properties, 1, <<>>) = unique_properties


\* candidate j is a duplicate of an earlier candidate of the batch among those
\* of the set earlier
DuplicatesOneOf(j, earlier) ==
    \E i \in earlier : i < j /\ are_properties_duplicate(properties[j], properties[i])

\* the batch in the order given by the permutation f of its positions
Reordered(f) == [k \in 1..Len(properties) |-> properties[f[k]]]

\* C28 as stated: after a pass every candidate that is a duplicate of some
\* earlier candidate of the batch, accepted or rejected, is absent from the
\* output, and the number of accepted listings is the same for every order
\* of the input.
C28_AbsentIfDuplicateOfAnyEarlier ==
    dd_pc = "done" =>
        /\ \A j \in 1..Len(properties) :
              DuplicatesOneOf(j, 1..Len(properties)) => j \notin Range(unique_properties)
        /\ \A f \in Permutations(1..Len(properties)) :
              Len(deduplicate_properties(Reordered(f), 1, <<>>)) = Len(unique_properties)

\* C28, amended: after a pass a candidate is absent from the output exactly
\* when it is a duplicate of some earlier candidate that was itself accepted;
\* a candidate that matches earlier rejected candidates only is kept.
C28_AbsentIffDuplicateOfEarlierAccepted ==
    dd_pc = "done" =>
        \A j \in 1..Len(properties) :
            DuplicatesOneOf(j, Range(unique_properties)) <=> j \notin Range(unique_properties)

\* the third candidate matches the second, which was rejected, and not the
\* first: it is kept, and the pass over the batch with the first two
\* candidates swapped accepts one listing fewer
C28_Witness ==
    /\ dd_pc = "done"
    /\ Len(properties) = 3
    /\ DuplicatesOneOf(3, {2})
    /\ ~DuplicatesOneOf(3, {1})
    /\ unique_properties = <<1, 3>>
    /\ Len(deduplicate_properties(Reordered(<<2, 1, 3>>), 1, <<>>)) = 1


\* the number of known_locations keywords in the title of each candidate
TitleKeywords == [c \in GeoCandidates |-> Len(extract_location_from_title(c[1]))]

\* the most lookups the claim allows a call for (title, location)
MostLookups(t, loc) == 3 * (2 * TitleKeywords[<<t, loc>>] + 4)

NoQueryTwice(queries) ==
    \A a, b \in 1..Len(queries) : a # b => queries[a] # queries[b]

\* the step sends a query to the external lookup
SendsQuery == geo_pc = "loop" /\ lookups' = lookups + 1

\* C29: every get_coordinates call terminates whatever the external lookup
\* answers; it sends each distinct query at most 3 times and at most
\* 3 x (2 x number of title keywords + 4) queries in all; a query that
\* returned no result or an error other than rate limiting is not sent again.
C29_CallTerminatesWithinLookupBudget ==
    /\ [](/\ geo_pc = "loop" =>
                /\ NoQueryTwice(unique_queries)
                /\ sent.tries <= 3
                /\ lookups <= 3 * (qi - 1) + attempt
                /\ lookups < MostLookups(title, location)
          /\ \A k \in 1..Len(completed) :
                completed[k].lookups <= MostLookups(completed[k].title, completed[k].location))
    /\ [][SendsQuery =>
             /\ sent'.query = unique_queries[qi]
             /\ sent'.tries > 1 => RateLimited(last_answer)
             /\ (last_answer'.kind = "none" \/ Permanent(last_answer')) =>
                    \/ geo_pc' = "idle"
                    \/ qi' = qi + 1 /\ unique_queries' = unique_queries]_vars
    /\ (geo_pc = "loop") ~> (geo_pc = "idle")

\* the call for the candidate with four queries and no title keyword has
\* returned None after 3 x 4 lookups, each query refused three times for
\* rate limiting
C29_Witness ==
    /\ Len(completed) = 1
    /\ completed[1] = CallRecord("Villa", "Xabia, Arenal", None, 12)
    /\ MostLookups("Villa", "Xabia, Arenal") = 12
    /\ sent.tries = 3
    /\ geo_pc = "idle"


\* upload_to_supabase was called with credentials set and has ended
UploadRan ==
    /\ script = "process_and_upload.py"
    /\ upload_summary.pc \in {"returned", "KeyError", "NameError"}

\* C30: upload_to_supabase attempts an upsert for every listing it is given,
\* whatever the earlier upserts did; success_count + error_count is the
\* number of listings; and the function returns normally for every mix of
\* accepted and refused upserts, the cache clearing after a success
\* included.
C30_UploadCountsEveryListingAndReturns ==
    UploadRan =>
        /\ Upserted = Range(unique_properties)
        /\ Len(upserts) = Len(unique_properties)
        /\ upload_summary.success_count + upload_summary.error_count
              = Len(unique_properties)
        /\ upload_summary.pc = "returned"

=============================================================================
